---- MODULE Spec2Model ----
(***************************************************************************)
(* Model of auto_investor's risk guardrail engine (RiskManager) together   *)
(* with the DataStore tables it consults (loss_sales, executions), and of  *)
(* the trading cycle (ExecutionEngine.run_cycle) that calls it, run by the *)
(* threads the dashboard's "run now" request starts.                       *)
(*                                                                         *)
(* Representation                                                          *)
(*   - money, prices and quantities are integers (whole dollars / shares); *)
(*   - portfolio.daily_pl_pct is kept in tenths of a percent, so that the  *)
(*     -3.5% of the documentation is the integer -35;                      *)
(*   - every other percentage is a whole percent; a float comparison       *)
(*     (a / b) * 100 <cmp> c with b > 0 is computed exactly, as            *)
(*     a * 100 <cmp> c * b;                                                *)
(*   - time is in minutes since an arbitrary epoch; an ISO timestamp is    *)
(*     its minute count (ISO strings of one format order like the times);  *)
(*   - an Optional value is None (the empty tuple) or Some(x) (<<x>>);     *)
(*   - '"/" in symbol' is computed on the characters of the symbol;        *)
(*   - a message (risk_notes, a veto reason) is the tuple of its pieces.   *)
(***************************************************************************)
EXTENDS Integers, Sequences, FiniteSets, TLC

VARIABLES
    config,         \* RiskManager.config : RiskConfig
    store,          \* RiskManager.store  : "None" or "DataStore"
    loss_sales,     \* table loss_sales of the DataStore, rows in insertion order
    executions,     \* table executions of the DataStore, rows in insertion order
    now,            \* datetime.now(), minutes
    trades_today,   \* RiskManager.trades_today
    session_spent,  \* RiskManager.session_spent
    pc,             \* position of the caller of evaluate: "idle", "loop", "returned"
    proposals,      \* the batch as it was passed to evaluate (values, never mutated)
    decisions,      \* the TradeDecision objects of the batch (mutated in place)
    portfolio,      \* the PortfolioSnapshot passed to evaluate
    approved,       \* local list `approved`: indices of the objects appended so far
    idx,            \* position of the for loop in `decisions`
    result,         \* value returned by evaluate: None or Some(list of decisions)
    entry,          \* the counters as they were when evaluate was entered
    calls,          \* number of evaluate calls made so far
    dry_run,        \* main's dry_run: no "--execute" on the command line
    cyc,            \* the run_cycle activations: thread -> locals and position
    started,        \* number of threads started by api_force_cycle
    _hold_cooldowns,\* ExecutionEngine._hold_cooldowns: symbols with a recent HOLD
    orders,         \* the broker's open orders, oldest first
    outage,         \* the feeds that answer a request with an exception
    bars,           \* the dict passed to compute_indicators: symbol -> list of DailyBar
    indicators,     \* the outcome of compute_indicators: None before the call
    _run_cycle_fn,  \* dashboard._run_cycle_fn: the function main registered
    _hold_all       \* dashboard._hold_all: the HOLD ALL switch

\* the RiskManager, its DataStore and the clock
riskVars == <<config, store, loss_sales, executions, now, trades_today, session_spent>>

\* a direct call of evaluate
callVars == <<pc, proposals, decisions, portfolio, approved, idx, result, entry, calls>>

\* the ExecutionEngine, its threads and the broker
cycVars == <<dry_run, cyc, started, _hold_cooldowns, orders, outage>>

\* a call of the indicator engine
indVars == <<bars, indicators>>

\* the dashboard's module globals
dashVars == <<_run_cycle_fn, _hold_all>>

vars == <<riskVars, callVars, cycVars, indVars, dashVars>>

----------------------------------------------------------------------------
(* Optional values *)

None == <<>>

Some(x) == <<x>>

IsNone(o) == o = <<>>

Val(o) == o[1]

----------------------------------------------------------------------------
(* Bounds of the model *)

MaxBatch == 2

MaxCalls == 2

MaxElapsed == 2

MaxCycles == 2

\* minutes the engine may stay idle in all
MaxIdle == 20

----------------------------------------------------------------------------
(* Program constants *)

WASH_SALE_DAYS == 30

MIN_HOLD_MINUTES == 30

MinutesPerDay == 1440

BUY == "buy"

SELL == "sell"

HOLD == "hold"

RiskConfigDefaults ==
    [ max_position_pct           |-> 15,
      max_portfolio_risk_pct     |-> 80,
      daily_loss_limit_pct       |-> 3,
      max_trades_per_day         |-> 10,
      min_cash_reserve_pct       |-> 20,
      session_budget             |-> None,
      low_price_threshold        |-> 10,
      low_price_max_position_pct |-> 3 ]

----------------------------------------------------------------------------
(* Symbols *)

AAPL == "AAPL"

FORD == "F"

UNIUSD == "UNI/USD"

Symbols == {AAPL, FORD, UNIUSD}

\* the characters of a symbol
Chars(symbol) ==
    CASE symbol = "AAPL"    -> <<"A", "A", "P", "L">>
      [] symbol = "F"       -> <<"F">>
      [] symbol = "UNI/USD" -> <<"U", "N", "I", "/", "U", "S", "D">>

\* the Python test  ch in s  on a string
Contains(ch, s) == \E k \in DOMAIN Chars(s) : Chars(s)[k] = ch

IsCrypto(symbol) == Contains("/", symbol)

----------------------------------------------------------------------------
(* DataStore queries *)

\* indices of the rows of table t that satisfy the WHERE clause keep
Latest(t, keep) ==
    LET rows == {k \in DOMAIN t : keep[k]}
    IN  IF rows = {} THEN None
        ELSE Some(CHOOSE k \in rows :
                    \A j \in rows : \/ t[j].timestamp < t[k].timestamp
                                    \/ (t[j].timestamp = t[k].timestamp /\ j <= k))

\* variant: the cutoff itself is inside the window
get_recent_loss_sale_inclusive(symbol, days) ==
    LET cutoff == now - days * MinutesPerDay
        row == Latest(loss_sales,
                      [k \in DOMAIN loss_sales |->
                          /\ loss_sales[k].symbol = symbol
                          /\ loss_sales[k].timestamp >= cutoff])
    IN  IF IsNone(row) THEN None
        ELSE Some([timestamp |-> loss_sales[Val(row)].timestamp,
                   loss      |-> loss_sales[Val(row)].sold_at_loss])

\* SELECT timestamp, sold_at_loss FROM loss_sales
\*   WHERE symbol = ? AND timestamp > cutoff ORDER BY timestamp DESC LIMIT 1
get_recent_loss_sale(symbol, days) ==
    LET cutoff == now - days * MinutesPerDay
        row == Latest(loss_sales,
                      [k \in DOMAIN loss_sales |->
                          /\ loss_sales[k].symbol = symbol
                          /\ loss_sales[k].timestamp > cutoff])
    IN  IF IsNone(row) THEN None
        ELSE Some([timestamp |-> loss_sales[Val(row)].timestamp,
                   loss      |-> loss_sales[Val(row)].sold_at_loss])

\* SELECT timestamp FROM executions
\*   WHERE symbol = ? AND side = 'buy' ORDER BY timestamp DESC LIMIT 1
get_last_buy_time(symbol) ==
    LET row == Latest(executions,
                      [k \in DOMAIN executions |->
                          /\ executions[k].symbol = symbol
                          /\ executions[k].side = "buy"])
    IN  IF IsNone(row) THEN None ELSE Some(executions[Val(row)].timestamp)

----------------------------------------------------------------------------
(* RiskManager: the checks *)

\* next((p for p in portfolio.positions if p.symbol == symbol), None)
FindPosition(pf, symbol) ==
    LET hits == {k \in DOMAIN pf.positions : pf.positions[k].symbol = symbol}
    IN  IF hits = {} THEN None
        ELSE Some(pf.positions[CHOOSE k \in hits : \A j \in hits : k <= j])

\* existing.current_price if existing else 0
EstPrice(pf, symbol) ==
    LET existing == FindPosition(pf, symbol)
    IN  IF IsNone(existing) THEN 0 ELSE Val(existing).current_price

\* variant: the breaker also trips at exactly the loss limit
_circuit_breaker_triggered_atLimit(pf) ==
    \/ pf.daily_pl_pct <= -(config.daily_loss_limit_pct * 10)
    \/ trades_today >= config.max_trades_per_day

\* portfolio.daily_pl_pct is in tenths of a percent
_circuit_breaker_triggered(pf) ==
    \/ pf.daily_pl_pct < -(config.daily_loss_limit_pct * 10)
    \/ trades_today >= config.max_trades_per_day

\* not decision.quantity or decision.quantity <= 0
InvalidQuantity(q) == IF IsNone(q) THEN TRUE ELSE (Val(q) = 0 \/ Val(q) <= 0)

\* the wash-sale lookup of _check_buy: the row found, or None
WashSale(symbol) ==
    IF store # "None" /\ ~Contains("/", symbol)
    THEN get_recent_loss_sale(symbol, WASH_SALE_DAYS)
    ELSE None

\* variant: spending the budget exactly is refused
BudgetExceeded_atBudget(d, pf) ==
    /\ ~IsNone(config.session_budget)
    /\ EstPrice(pf, d.symbol) > 0
    /\ session_spent + Val(d.quantity) * EstPrice(pf, d.symbol)
          >= Val(config.session_budget)

\* variant: the cost alone is held against the budget
BudgetExceeded_ignoreSpent(d, pf) ==
    /\ ~IsNone(config.session_budget)
    /\ EstPrice(pf, d.symbol) > 0
    /\ Val(d.quantity) * EstPrice(pf, d.symbol) > Val(config.session_budget)

\* the session-budget test of _check_buy
BudgetExceeded(d, pf) ==
    /\ ~IsNone(config.session_budget)
    /\ EstPrice(pf, d.symbol) > 0
    /\ session_spent + Val(d.quantity) * EstPrice(pf, d.symbol)
          > Val(config.session_budget)

\* variant: with no equity the reserve test is skipped
ReserveTooLow_skipNoEquity(pf) ==
    IF pf.equity # 0
    THEN pf.buying_power * 100 <= config.min_cash_reserve_pct * pf.equity
    ELSE FALSE

\* variant: a reserve exactly at the minimum is accepted
ReserveTooLow_strict(pf) ==
    IF pf.equity # 0
    THEN pf.buying_power * 100 < config.min_cash_reserve_pct * pf.equity
    ELSE 0 < config.min_cash_reserve_pct

\* bp_pct <= min_cash_reserve_pct, bp_pct = buying_power / equity * 100 or 0
ReserveTooLow(pf) ==
    IF pf.equity # 0
    THEN IF pf.equity > 0
         THEN pf.buying_power * 100 <= config.min_cash_reserve_pct * pf.equity
         ELSE pf.buying_power * 100 >= config.min_cash_reserve_pct * pf.equity
    ELSE 0 <= config.min_cash_reserve_pct

\* variant: one ceiling for every price
MaxPct_noLowPrice(symbol, est_price) == config.max_position_pct

\* the ceiling chosen in _check_buy
MaxPct(symbol, est_price) ==
    IF ~IsCrypto(symbol) /\ est_price < config.low_price_threshold
    THEN config.low_price_max_position_pct
    ELSE config.max_position_pct

\* existing_value + quantity * est_price
NewValue(d, pf) ==
    LET existing == FindPosition(pf, d.symbol)
        existing_value == IF IsNone(existing) THEN 0 ELSE Val(existing).market_value
    IN  existing_value + Val(d.quantity) * EstPrice(pf, d.symbol)

\* variant: a position exactly at the ceiling is refused
PositionTooLarge_atCeiling(d, pf) ==
    LET max_pct == MaxPct(d.symbol, EstPrice(pf, d.symbol))
    IN  NewValue(d, pf) * 100 >= max_pct * pf.equity

\* position_pct > max_pct, position_pct = new_value / equity * 100 (equity # 0)
PositionTooLarge(d, pf) ==
    LET max_pct == MaxPct(d.symbol, EstPrice(pf, d.symbol))
    IN  IF pf.equity > 0
        THEN NewValue(d, pf) * 100 > max_pct * pf.equity
        ELSE NewValue(d, pf) * 100 < max_pct * pf.equity

\* outcomes of a check: (vetoed, reason), or an exception
Pass == [vetoed |-> FALSE, reason |-> <<>>, raised |-> FALSE]

Vetoed(reason) == [vetoed |-> TRUE, reason |-> reason, raised |-> FALSE]

Raised(what) == [vetoed |-> FALSE, reason |-> <<what>>, raised |-> TRUE]

\* variant: the session budget is looked at before the wash-sale rule
_check_buy_budgetFirst(d, pf) ==
    IF InvalidQuantity(d.quantity)
    THEN Vetoed(<<"Invalid quantity">>)
    ELSE IF BudgetExceeded(d, pf)
    THEN Vetoed(<<"Exceeds session budget ",
                  ToString(Val(d.quantity) * EstPrice(pf, d.symbol)),
                  ToString(Val(config.session_budget) - session_spent)>>)
    ELSE IF ~IsNone(WashSale(d.symbol))
    THEN Vetoed(<<"Wash sale: ", "sold at loss",
                  ToString(Val(WashSale(d.symbol)).loss),
                  ToString(Val(WashSale(d.symbol)).timestamp \div MinutesPerDay),
                  ToString(WASH_SALE_DAYS), "-day cooldown">>)
    ELSE IF ReserveTooLow(pf)
    THEN Vetoed(<<"Buying power too low ", ToString(config.min_cash_reserve_pct)>>)
    ELSE IF EstPrice(pf, d.symbol) > 0
    THEN IF pf.equity = 0
         THEN Raised("ZeroDivisionError")
         ELSE IF PositionTooLarge(d, pf)
         THEN Vetoed(<<"Position too large for ",
                       IF EstPrice(pf, d.symbol) < config.low_price_threshold
                       THEN "low-priced " ELSE "",
                       IF IsCrypto(d.symbol) THEN "crypto" ELSE "stock",
                       ToString(MaxPct(d.symbol, EstPrice(pf, d.symbol)))>>)
         ELSE Pass
    ELSE Pass

_check_buy(d, pf) ==
    IF InvalidQuantity(d.quantity)
    THEN Vetoed(<<"Invalid quantity">>)
    ELSE IF ~IsNone(WashSale(d.symbol))
    THEN Vetoed(<<"Wash sale: ", "sold at loss",
                  ToString(Val(WashSale(d.symbol)).loss),
                  ToString(Val(WashSale(d.symbol)).timestamp \div MinutesPerDay),
                  ToString(WASH_SALE_DAYS), "-day cooldown">>)
    ELSE IF BudgetExceeded(d, pf)
    THEN Vetoed(<<"Exceeds session budget ",
                  ToString(Val(d.quantity) * EstPrice(pf, d.symbol)),
                  ToString(Val(config.session_budget) - session_spent)>>)
    ELSE IF ReserveTooLow(pf)
    THEN Vetoed(<<"Buying power too low ", ToString(config.min_cash_reserve_pct)>>)
    ELSE IF EstPrice(pf, d.symbol) > 0
    THEN IF pf.equity = 0
         THEN Raised("ZeroDivisionError")
         ELSE IF PositionTooLarge(d, pf)
         THEN Vetoed(<<"Position too large for ",
                       IF EstPrice(pf, d.symbol) < config.low_price_threshold
                       THEN "low-priced " ELSE "",
                       IF IsCrypto(d.symbol) THEN "crypto" ELSE "stock",
                       ToString(MaxPct(d.symbol, EstPrice(pf, d.symbol)))>>)
         ELSE Pass
    ELSE Pass

\* variant: the lock still holds at exactly MIN_HOLD_MINUTES
MinHoldLocked_atLimit(symbol) ==
    /\ store # "None"
    /\ ~IsNone(get_last_buy_time(symbol))
    /\ now - Val(get_last_buy_time(symbol)) <= MIN_HOLD_MINUTES

\* held_for < timedelta(minutes=MIN_HOLD_MINUTES)
MinHoldLocked(symbol) ==
    /\ store # "None"
    /\ ~IsNone(get_last_buy_time(symbol))
    /\ now - Val(get_last_buy_time(symbol)) < MIN_HOLD_MINUTES

\* variant: a SELL without a quantity is let through before the position lookup
_check_sell_quantityFirst(d, pf) ==
    LET existing == FindPosition(pf, d.symbol)
    IN  IF IsNone(d.quantity)
        THEN Pass
        ELSE IF IsNone(existing)
        THEN Vetoed(<<"No position in ", "to sell">>)
        ELSE IF Val(d.quantity) # 0 /\ Val(d.quantity) > Val(existing).quantity
        THEN Vetoed(<<"Sell qty (", ToString(Val(d.quantity)), ") > position (",
                      ToString(Val(existing).quantity), ")">>)
        ELSE IF MinHoldLocked(d.symbol)
        THEN Vetoed(<<"Min hold period: bought ",
                      ToString(now - Val(get_last_buy_time(d.symbol))), "m ago, wait ",
                      ToString(MIN_HOLD_MINUTES
                               - (now - Val(get_last_buy_time(d.symbol)))), "m more">>)
        ELSE Pass

\* variant: selling the whole position is refused
_check_sell_atHeld(d, pf) ==
    LET existing == FindPosition(pf, d.symbol)
    IN  IF IsNone(existing)
        THEN Vetoed(<<"No position in ", "to sell">>)
        ELSE IF ~IsNone(d.quantity) /\ Val(d.quantity) # 0
                /\ Val(d.quantity) >= Val(existing).quantity
        THEN Vetoed(<<"Sell qty (", ToString(Val(d.quantity)), ") > position (",
                      ToString(Val(existing).quantity), ")">>)
        ELSE IF MinHoldLocked(d.symbol)
        THEN Vetoed(<<"Min hold period: bought ",
                      ToString(now - Val(get_last_buy_time(d.symbol))), "m ago, wait ",
                      ToString(MIN_HOLD_MINUTES
                               - (now - Val(get_last_buy_time(d.symbol)))), "m more">>)
        ELSE Pass

_check_sell(d, pf) ==
    LET existing == FindPosition(pf, d.symbol)
    IN  IF IsNone(existing)
        THEN Vetoed(<<"No position in ", "to sell">>)
        ELSE IF ~IsNone(d.quantity) /\ Val(d.quantity) # 0
                /\ Val(d.quantity) > Val(existing).quantity
        THEN Vetoed(<<"Sell qty (", ToString(Val(d.quantity)), ") > position (",
                      ToString(Val(existing).quantity), ")">>)
        ELSE IF MinHoldLocked(d.symbol)
        THEN Vetoed(<<"Min hold period: bought ",
                      ToString(now - Val(get_last_buy_time(d.symbol))), "m ago, wait ",
                      ToString(MIN_HOLD_MINUTES
                               - (now - Val(get_last_buy_time(d.symbol)))), "m more">>)
        ELSE Pass

_check_decision(d, pf) ==
    IF d.action = BUY THEN _check_buy(d, pf)
    ELSE IF d.action = SELL THEN _check_sell(d, pf)
    ELSE Pass

----------------------------------------------------------------------------
(* RiskManager.evaluate: one decision of the for loop *)

\* variant: the veto keeps the proposed quantity
Veto_keepQuantity(d, reason) ==
    [d EXCEPT !.risk_notes = <<"VETOED: ">> \o reason,
              !.action     = HOLD]

\* the effect of a veto on the decision object
Veto(d, reason) ==
    [d EXCEPT !.risk_notes = <<"VETOED: ">> \o reason,
              !.action     = HOLD,
              !.quantity   = None]

\* variant: an approved SELL is charged to the session as well
SpentBy_anyAction(d, pf) ==
    IF ~IsNone(d.quantity) /\ Val(d.quantity) # 0 /\ EstPrice(pf, d.symbol) > 0
    THEN Val(d.quantity) * EstPrice(pf, d.symbol)
    ELSE 0

\* session_spent += decision.quantity * price, for an approved decision
SpentBy(d, pf) ==
    IF d.action = BUY /\ ~IsNone(d.quantity) /\ Val(d.quantity) # 0
       /\ EstPrice(pf, d.symbol) > 0
    THEN Val(d.quantity) * EstPrice(pf, d.symbol)
    ELSE 0

\* variant: HOLD is not short-circuited and goes through _check_decision
Process_noHoldShortcut(d, pf) ==
    LET chk == _check_decision(d, pf)
    IN  IF chk.raised
        THEN [decision |-> d, trades |-> 0, spent |-> 0, raised |-> TRUE]
        ELSE IF chk.vetoed
        THEN [decision |-> Veto(d, chk.reason), trades |-> 0, spent |-> 0,
              raised |-> FALSE]
        ELSE [decision |-> d, trades |-> 1, spent |-> SpentBy(d, pf),
              raised |-> FALSE]

\* body of the for loop: the decision afterwards, the increments of the two
\* counters, and whether an exception left the loop
Process(d, pf) ==
    IF d.action = HOLD
    THEN [decision |-> d, trades |-> 0, spent |-> 0, raised |-> FALSE]
    ELSE LET chk == _check_decision(d, pf)
         IN  IF chk.raised
             THEN [decision |-> d, trades |-> 0, spent |-> 0, raised |-> TRUE]
             ELSE IF chk.vetoed
             THEN [decision |-> Veto(d, chk.reason), trades |-> 0, spent |-> 0,
                   raised |-> FALSE]
             ELSE [decision |-> d, trades |-> 1, spent |-> SpentBy(d, pf),
                   raised |-> FALSE]

\* variant: a vetoed decision is dropped instead of being returned as HOLD
AppendApproved_dropVetoed(list, k, d) ==
    IF d.action = HOLD /\ d.risk_notes # <<>> /\ Head(d.risk_notes) = "VETOED: "
    THEN list
    ELSE Append(list, k)

\* approved.append(decision), reached by HOLD, vetoed and passed decisions alike
AppendApproved(list, k, d) == Append(list, k)

\* the list evaluate returns: the objects appended, as they are now
Approved == [k \in DOMAIN approved |-> decisions[approved[k]]]

----------------------------------------------------------------------------
(* Inputs *)

Decision(symbol, action, quantity, risk_notes) ==
    [symbol |-> symbol, action |-> action, quantity |-> quantity,
     risk_notes |-> risk_notes]

Position(symbol, quantity, current_price, unrealized_pl) ==
    [symbol |-> symbol, quantity |-> quantity, current_price |-> current_price,
     market_value |-> quantity * current_price, unrealized_pl |-> unrealized_pl]

Snapshot(equity, buying_power, positions, daily_pl_pct) ==
    [equity |-> equity, buying_power |-> buying_power, positions |-> positions,
     daily_pl_pct |-> daily_pl_pct]

\* what the proposal generator may hand in
Proposals ==
    {Decision(FORD, HOLD, Some(10), <<"Any concerns">>),
     Decision(AAPL, BUY, Some(0), <<>>),
     Decision(AAPL, BUY, Some(95), <<>>),
     Decision(AAPL, BUY, Some(96), <<"Any concerns">>),
     Decision(FORD, BUY, Some(233), <<>>),
     Decision(FORD, BUY, Some(445), <<>>),
     Decision(UNIUSD, BUY, Some(501), <<>>),
     Decision(AAPL, SELL, Some(5), <<>>),
     Decision(AAPL, SELL, Some(6), <<>>)}

\* the generator is asked for one decision per symbol of the (deduplicated)
\* watchlist: a batch is a list of proposals for distinct symbols
Batches ==
    {b \in UNION {[1..n -> Proposals] : n \in 0..MaxBatch} :
        \A i, j \in DOMAIN b : i # j => b[i].symbol # b[j].symbol}

Held ==
    <<Position(AAPL, 5, 150, -50), Position(FORD, 100, 9, 10),
      Position(UNIUSD, 100, 5, 0)>>

\* a position the broker reports without a price; FORD and UNI/USD are not held
Unpriced == <<Position(AAPL, 5, 0, 0)>>

Portfolios ==
    {Snapshot(100000, 50000, Unpriced, 0),
     Snapshot(100000, 50000, Held, 0),
     Snapshot(100000, 20000, Held, -30),
     Snapshot(0, 0, <<>>, 0),
     Snapshot(100000, 50000, Held, -35)}

\* single proposals of every action with the quantity absent, negative, zero
\* and positive (5 is the AAPL holding, 6 is one more)
WideQuantities == {None, Some(-1), Some(0), Some(5), Some(6)}

WideProposals ==
    {Decision(s, a, q, <<>>) : s \in Symbols, a \in {BUY, SELL}, q \in WideQuantities}
    \cup {Decision(s, HOLD, None, <<>>) : s \in Symbols}

WideBatches == {<<d>> : d \in WideProposals}

\* the snapshots above, and an account without equity that still reports positions
WidePortfolios == Portfolios \cup {Snapshot(0, 0, Held, 0)}

\* configurations: the defaults, and a session with a budget and a low trade cap
Configs ==
    {RiskConfigDefaults,
     [RiskConfigDefaults EXCEPT !.session_budget = Some(14250),
                                !.max_trades_per_day = 2]}

\* clock reading at construction
T0 == 35 * MinutesPerDay

\* tables a DataStore can hold when the RiskManager is constructed
LossRow(timestamp, symbol, sold_at_loss) ==
    [timestamp |-> timestamp, symbol |-> symbol, sold_at_loss |-> sold_at_loss]

ExecRow(timestamp, symbol, side) ==
    [timestamp |-> timestamp, symbol |-> symbol, side |-> side]

NoTables == [loss_sales |-> <<>>, executions |-> <<>>]

Tables ==
    [loss_sales |-> <<LossRow(T0 - 31 * MinutesPerDay, AAPL, -50),
                       LossRow(T0 - (WASH_SALE_DAYS * MinutesPerDay - 1), AAPL, -50),
                       LossRow(T0 - MinutesPerDay, UNIUSD, -50),
                       LossRow(T0 - 31 * MinutesPerDay, FORD, -50)>>,
      executions |-> <<ExecRow(T0 - MinutesPerDay, AAPL, "buy"),
                       ExecRow(T0 - (MIN_HOLD_MINUTES - 1), AAPL, "buy"),
                       ExecRow(T0 - 1, FORD, "sell")>>]

----------------------------------------------------------------------------
(* The state machine *)

NoCall == [trades_today |-> 0, session_spent |-> 0, tripped |-> FALSE]

\* the threads api_force_cycle can start, in the order it starts them
Threads == 1..MaxCycles

\* a thread that has not been started: the locals of run_cycle, unset
NotStarted ==
    [at        |-> "not started",
     crypto    |-> FALSE,
     watchlist |-> <<>>,
     portfolio |-> None,
     quotes    |-> "unset",
     bars      |-> "unset",
     news      |-> "unset",
     reddit_posts |-> "unset",
     proposals |-> <<>>,
     decisions |-> <<>>,
     approved  |-> <<>>,
     tripped   |-> FALSE,
     idx       |-> 0,
     reg       |-> 0,
     recorded  |-> None,
     trace     |-> <<>>]

Init ==
    /\ config \in Configs
    /\ store \in {"None", "DataStore"}
    /\ loss_sales = IF store = "None" THEN NoTables.loss_sales ELSE Tables.loss_sales
    /\ executions = IF store = "None" THEN NoTables.executions ELSE Tables.executions
    /\ now = T0
    /\ trades_today = 0
    /\ session_spent = 0
    /\ pc = "idle"
    /\ proposals = <<>>
    /\ decisions = <<>>
    /\ portfolio = None
    /\ approved = <<>>
    /\ idx = 0
    /\ result = None
    /\ entry = NoCall
    /\ calls = 0
    /\ dry_run = TRUE
    /\ cyc = [t \in Threads |-> NotStarted]
    /\ started = 0
    /\ _hold_cooldowns = << >>
    /\ orders = <<>>
    /\ outage = {}
    /\ bars = << >>
    /\ indicators = None
    /\ _run_cycle_fn = "run_cycle"
    /\ _hold_all = FALSE

\* evaluate is entered: the circuit breaker
Call(batch, pf) ==
    /\ pc = "idle"
    /\ calls < MaxCalls
    /\ calls' = calls + 1
    /\ proposals' = batch
    /\ decisions' = batch
    /\ portfolio' = Some(pf)
    /\ approved' = <<>>
    /\ entry' = [trades_today |-> trades_today, session_spent |-> session_spent,
                 tripped |-> _circuit_breaker_triggered(pf)]
    /\ IF _circuit_breaker_triggered(pf)
       THEN /\ result' = Some(<<>>)
            /\ pc' = "returned"
            /\ idx' = 0
       ELSE /\ result' = None
            /\ pc' = "loop"
            /\ idx' = 1
    /\ UNCHANGED <<config, store, loss_sales, executions, now, trades_today,
                   session_spent>>
    /\ UNCHANGED <<cycVars, indVars, dashVars>>

evaluate == \E batch \in Batches, pf \in Portfolios : Call(batch, pf)

\* one iteration of the for loop
Step ==
    /\ pc = "loop"
    /\ idx <= Len(decisions)
    /\ LET out == Process(decisions[idx], Val(portfolio))
       IN  IF out.raised
           THEN /\ pc' = "raised"
                /\ UNCHANGED <<decisions, approved, trades_today, session_spent, idx>>
           ELSE /\ decisions' = [decisions EXCEPT ![idx] = out.decision]
                /\ trades_today' = trades_today + out.trades
                /\ session_spent' = session_spent + out.spent
                /\ approved' = AppendApproved(approved, idx, out.decision)
                /\ idx' = idx + 1
                /\ pc' = "loop"
    /\ UNCHANGED <<config, store, loss_sales, executions, now, proposals, portfolio,
                   result, entry, calls>>
    /\ UNCHANGED <<cycVars, indVars, dashVars>>

\* return approved
Return ==
    /\ pc = "loop"
    /\ idx > Len(decisions)
    /\ result' = Some(Approved)
    /\ pc' = "returned"
    /\ UNCHANGED <<config, store, loss_sales, executions, now, trades_today,
                   session_spent, proposals, decisions, portfolio, approved, idx,
                   entry, calls>>
    /\ UNCHANGED <<cycVars, indVars, dashVars>>

\* the caller is done with the batch and the returned list
Finish ==
    /\ pc = "returned"
    /\ pc' = "idle"
    /\ proposals' = <<>>
    /\ decisions' = <<>>
    /\ portfolio' = None
    /\ approved' = <<>>
    /\ idx' = 0
    /\ result' = None
    /\ entry' = NoCall
    /\ UNCHANGED <<config, store, loss_sales, executions, now, trades_today,
                   session_spent, calls>>
    /\ UNCHANGED <<cycVars, indVars, dashVars>>

\* variant: the daily reset also clears the session's spending
reset_daily_clearsSession ==
    /\ pc = "idle"
    /\ trades_today # 0
    /\ trades_today' = 0
    /\ session_spent' = 0
    /\ UNCHANGED <<config, store, loss_sales, executions, now, pc,
                   proposals, decisions, portfolio, approved, idx, result, entry,
                   calls>>
    /\ UNCHANGED <<cycVars, indVars, dashVars>>

reset_daily ==
    /\ pc = "idle"
    /\ trades_today # 0
    /\ trades_today' = 0
    /\ UNCHANGED <<config, store, loss_sales, executions, now, session_spent, pc,
                   proposals, decisions, portfolio, approved, idx, result, entry,
                   calls>>
    /\ UNCHANGED <<cycVars, indVars, dashVars>>

\* a minute passes
Tick ==
    /\ pc = "idle"
    /\ now < T0 + MaxElapsed
    /\ now' = now + 1
    /\ UNCHANGED <<config, store, loss_sales, executions, trades_today,
                   session_spent, pc, proposals, decisions, portfolio, approved,
                   idx, result, entry, calls>>
    /\ UNCHANGED <<cycVars, indVars, dashVars>>

\* reset_daily has no caller in the program: it is not a step of Next
Next == evaluate \/ Step \/ Return \/ Finish

Spec == Init /\ [][Next]_vars

\* the same machine with the clock running, on the default configuration with
\* a data store attached
InitClock == Init /\ config = RiskConfigDefaults /\ store = "DataStore"

NextClock == evaluate \/ Step \/ Return \/ Finish \/ Tick

SpecClock == InitClock /\ [][NextClock]_vars

\* the first call on a fresh RiskManager, with one proposal drawn from the wide
\* input sets, at any minute of the clock
evaluateWide ==
    /\ calls = 0
    /\ \E batch \in WideBatches, pf \in WidePortfolios : Call(batch, pf)

NextWide == evaluateWide \/ Step \/ Return \/ Finish \/ Tick

SpecWide == Init /\ [][NextWide]_vars

\* calls of evaluate with one proposal from the wide input sets, and daily
\* resets between them
evaluateDaily == \E batch \in WideBatches, pf \in WidePortfolios : Call(batch, pf)

NextDaily == evaluateDaily \/ Step \/ Return \/ Finish \/ reset_daily

SpecDaily == Init /\ [][NextDaily]_vars

----------------------------------------------------------------------------
(* ExecutionEngine.run_cycle, as run by the threads of api_force_cycle        *)
(*                                                                            *)
(* A step of a thread is a piece of run_cycle that touches the state shared   *)
(* with the other threads (the RiskManager's counters, the DataStore, the     *)
(* cooldown table, the broker) at most once, except that an access that       *)
(* commutes with every step of another thread is joined to its neighbour.     *)
(* The statement  self.x += v  is a read of self.x followed by a write: the   *)
(* value read is kept in the thread's register reg.                           *)

HOLD_COOLDOWN_MINUTES == 20

\* config.watchlist
ConfigWatchlist == <<AAPL>>

\* what get_top_movers can answer (an exception counts as the empty list)
Movers == {<<>>, <<FORD>>}

\* config.crypto_watchlist
ConfigCryptoWatchlist == <<UNIUSD>>

\* what get_crypto_movers can answer (it answers [] on an exception)
CryptoMovers == {<<>>}

\* list(dict.fromkeys(xs)): the first occurrence of every element, in order
RECURSIVE Dedupe(_)
Dedupe(xs) ==
    IF xs = <<>> THEN <<>>
    ELSE LET front == Dedupe(SubSeq(xs, 1, Len(xs) - 1))
             last  == xs[Len(xs)]
         IN  IF \E k \in DOMAIN front : front[k] = last
             THEN front
             ELSE Append(front, last)

\* variant: a symbol is still skipped when its HOLD is exactly
\* HOLD_COOLDOWN_MINUTES old
_apply_cooldowns_atLimit(watchlist) ==
    SelectSeq(watchlist,
              LAMBDA symbol :
                  ~ ( /\ symbol \in DOMAIN _hold_cooldowns
                      /\ _hold_cooldowns[symbol] >= now - HOLD_COOLDOWN_MINUTES ))

\* the symbols of the watchlist that are not on HOLD cooldown
_apply_cooldowns(watchlist) ==
    SelectSeq(watchlist,
              LAMBDA symbol :
                  ~ ( /\ symbol \in DOMAIN _hold_cooldowns
                      /\ _hold_cooldowns[symbol] > now - HOLD_COOLDOWN_MINUTES ))

\* the cooldown table after _record_holds(list)
_record_holds(list) ==
    LET holds == {list[k].symbol : k \in {j \in DOMAIN list : list[j].action = HOLD}}
    IN  [symbol \in DOMAIN _hold_cooldowns \cup holds |->
            IF symbol \in holds THEN now ELSE _hold_cooldowns[symbol]]

\* what the analyst may answer for a symbol
CycleProposals ==
    {Decision(AAPL, HOLD, None, <<>>),
     Decision(AAPL, BUY, Some(95), <<>>),
     Decision(AAPL, SELL, Some(5), <<>>),
     Decision(FORD, HOLD, None, <<"Any concerns">>),
     Decision(FORD, BUY, Some(233), <<>>),
     Decision(UNIUSD, HOLD, None, <<>>)}

\* the analyst's answers to a watchlist: one decision per symbol, in order
Answers(watchlist) ==
    {b \in [DOMAIN watchlist -> CycleProposals] :
        \A k \in DOMAIN watchlist : b[k].symbol = watchlist[k]}

\* the snapshots the broker may report to a cycle
CyclePortfolios ==
    {Snapshot(100000, 50000, Held, 0), Snapshot(100000, 50000, Held, -35)}

\* an open order at the broker
Order(symbol, side) == [symbol |-> symbol, side |-> side]

\* "VETOED" in d.risk_notes
HasVetoedMark(risk_notes) ==
    \E k \in DOMAIN risk_notes : risk_notes[k] = "VETOED: "

\* variant: every returned decision is handed to execute_decision
ShouldExecute_always(d) == TRUE

\* d.action != Action.HOLD and not vetoed
ShouldExecute(d) == d.action # HOLD /\ ~HasVetoedMark(d.risk_notes)

\* the thread is inside run_cycle
Running(t) == cyc[t].at \notin {"not started", "done", "aborted"}

\* the decision the execution loop of thread t is at
Current(t) == cyc[t].decisions[cyc[t].approved[cyc[t].idx]]

\* the feeds run_cycle asks inside a try block
Feeds == {"bars", "news", "reddit"}

\* what a guarded fetch leaves in its local: the except branch assigns the
\* empty value
Fetched(feed) == IF feed \in outage THEN "empty" ELSE "fetched"

\* the engine main constructs: a DataStore is always attached, the database is
\* fresh, the operator may have passed --execute
EngineConstructed ==
    /\ config \in Configs
    /\ store = "DataStore"
    /\ loss_sales = NoTables.loss_sales
    /\ executions = NoTables.executions
    /\ now = T0
    /\ trades_today = 0
    /\ session_spent = 0
    /\ pc = "idle"
    /\ proposals = <<>>
    /\ decisions = <<>>
    /\ portfolio = None
    /\ approved = <<>>
    /\ idx = 0
    /\ result = None
    /\ entry = NoCall
    /\ calls = 0
    /\ dry_run \in BOOLEAN
    /\ cyc = [t \in Threads |-> NotStarted]
    /\ started = 0
    /\ _hold_cooldowns = << >>
    /\ orders \in {<<>>, <<Order(FORD, "buy")>>}
    /\ outage \in SUBSET Feeds
    /\ bars = << >>
    /\ indicators = None

\* the process started with --dashboard: the registered function is a bare
\* run_cycle, and HOLD ALL is off
InitEngine ==
    /\ EngineConstructed
    /\ _run_cycle_fn = "run_cycle"
    /\ _hold_all = FALSE

\* the engine the dashboard drives, with every feed up
InitCycle == InitEngine /\ outage = {}

\* the engine on the default configuration, with any of the feeds down
InitFeeds == InitEngine /\ config = RiskConfigDefaults /\ orders = <<>>

\* POST /api/force-cycle: a new thread enters run_cycle
api_force_cycle(t) ==
    /\ started < MaxCycles
    /\ t = started + 1
    /\ cyc[t].at = "not started"
    /\ started' = started + 1
    /\ cyc' = [cyc EXCEPT ![t].at = "watchlist"]
    /\ UNCHANGED <<riskVars, callVars, indVars, dashVars, dry_run, outage, _hold_cooldowns, orders>>

\* the same request, made while no cycle is running
RunNowWhenIdle(t) ==
    /\ \A u \in Threads : ~Running(u)
    /\ api_force_cycle(t)

\* a caller of run_cycle(dry_run, crypto) that waits for its return: the
\* equity lane or the crypto lane
CallRunCycle(t, crypto) ==
    /\ \A u \in Threads : ~Running(u)
    /\ started < MaxCycles
    /\ t = started + 1
    /\ cyc[t].at = "not started"
    /\ started' = started + 1
    /\ cyc' = [cyc EXCEPT ![t].at = "watchlist", ![t].crypto = crypto]
    /\ UNCHANGED <<riskVars, callVars, indVars, dashVars, dry_run, outage, _hold_cooldowns, orders>>

\* the engine is idle for a while after a cycle
Sleep ==
    /\ started >= 1
    /\ \A u \in Threads : ~Running(u)
    /\ \E minutes \in {HOLD_COOLDOWN_MINUTES - 1, HOLD_COOLDOWN_MINUTES} :
          /\ now + minutes <= T0 + MaxIdle
          /\ now' = now + minutes
    /\ UNCHANGED <<config, store, loss_sales, executions, trades_today,
                   session_spent, callVars, cycVars, indVars, dashVars>>

\* the watchlist: core tickers and movers, without the symbols on cooldown; the
\* crypto lane applies no cooldown
BuildWatchlist(t) ==
    /\ cyc[t].at = "watchlist"
    /\ IF cyc[t].crypto
       THEN \E crypto_movers \in CryptoMovers :
              LET watchlist == Dedupe(ConfigCryptoWatchlist \o crypto_movers)
              IN  cyc' = [cyc EXCEPT
                            ![t].watchlist = watchlist,
                            ![t].trace = Append(@, "get_crypto_movers"),
                            ![t].at = IF watchlist = <<>> THEN "done" ELSE "portfolio"]
       ELSE \E movers \in Movers :
              LET watchlist == _apply_cooldowns(Dedupe(ConfigWatchlist \o movers))
              IN  cyc' = [cyc EXCEPT
                            ![t].watchlist = watchlist,
                            ![t].trace = Append(@, "get_top_movers"),
                            ![t].at = IF watchlist = <<>> THEN "done" ELSE "portfolio"]
    /\ UNCHANGED <<riskVars, callVars, indVars, dashVars, dry_run, outage, started, _hold_cooldowns, orders>>

\* portfolio = self.alpaca.get_portfolio_snapshot(); self.store.log_snapshot
FetchPortfolioOf(t, snapshots) ==
    /\ cyc[t].at = "portfolio"
    /\ \/ \E pf \in snapshots :
            cyc' = [cyc EXCEPT
                      ![t].portfolio = Some(pf),
                      ![t].trace = @ \o <<"get_portfolio_snapshot", "log_snapshot">>,
                      ![t].at = "market"]
       \/ cyc' = [cyc EXCEPT
                    ![t].trace = Append(@, "get_portfolio_snapshot"),
                    ![t].at = "aborted"]
    /\ UNCHANGED <<riskVars, callVars, indVars, dashVars, dry_run, outage, started, _hold_cooldowns, orders>>

\* the fetch of a cycle of the dashboard or of a lane
FetchPortfolio(t) == FetchPortfolioOf(t, CyclePortfolios)

\* variant: the fetch of the bars is not guarded, an outage of the bars ends
\* the cycle
FetchMarketData_barsFatal(t) ==
    /\ cyc[t].at = "market"
    /\ \/ /\ "bars" \notin outage
          /\ cyc' = [cyc EXCEPT
                       ![t].quotes = "fetched",
                       ![t].bars = Fetched("bars"),
                       ![t].news = Fetched("news"),
                       ![t].reddit_posts = Fetched("reddit"),
                       ![t].trace = @ \o <<"get_quotes", "get_bars", "get_news",
                                           "get_posts">>,
                       ![t].at = "analyze"]
       \/ /\ "bars" \in outage
          /\ cyc' = [cyc EXCEPT
                       ![t].quotes = "fetched",
                       ![t].trace = @ \o <<"get_quotes", "get_bars">>,
                       ![t].at = "aborted"]
       \/ cyc' = [cyc EXCEPT
                    ![t].trace = Append(@, "get_quotes"),
                    ![t].at = "aborted"]
    /\ UNCHANGED <<riskVars, callVars, indVars, dashVars, dry_run, outage, started, _hold_cooldowns, orders>>

\* quotes (an exception ends the cycle), then bars, news and posts (an
\* exception leaves the input empty)
FetchMarketData(t) ==
    /\ cyc[t].at = "market"
    /\ \/ cyc' = [cyc EXCEPT
                    ![t].quotes = "fetched",
                    ![t].bars = Fetched("bars"),
                    ![t].news = Fetched("news"),
                    ![t].reddit_posts = Fetched("reddit"),
                    ![t].trace = @ \o <<"get_quotes", "get_bars", "get_news", "get_posts">>,
                    ![t].at = "analyze"]
       \/ cyc' = [cyc EXCEPT
                    ![t].trace = Append(@, "get_quotes"),
                    ![t].at = "aborted"]
    /\ UNCHANGED <<riskVars, callVars, indVars, dashVars, dry_run, outage, started, _hold_cooldowns, orders>>

\* decisions = self.agent.analyze(...)
AnalyzeOf(t, answers) ==
    /\ cyc[t].at = "analyze"
    /\ \/ \E answer \in answers :
            cyc' = [cyc EXCEPT
                      ![t].proposals = answer,
                      ![t].decisions = answer,
                      ![t].trace = Append(@, "analyze"),
                      ![t].at = "evaluate"]
       \/ cyc' = [cyc EXCEPT
                    ![t].trace = Append(@, "analyze"),
                    ![t].at = "aborted"]
    /\ UNCHANGED <<riskVars, callVars, indVars, dashVars, dry_run, outage, started, _hold_cooldowns, orders>>

\* the analysis of a cycle of the dashboard or of a lane
Analyze(t) == AnalyzeOf(t, Answers(cyc[t].watchlist))

\* self.risk.evaluate is entered: the circuit breaker
Breaker(t) ==
    /\ cyc[t].at = "evaluate"
    /\ LET tripped == _circuit_breaker_triggered(Val(cyc[t].portfolio))
       IN  cyc' = [cyc EXCEPT
                     ![t].trace = Append(@, "evaluate"),
                     ![t].tripped = tripped,
                     ![t].approved = <<>>,
                     ![t].idx = IF tripped THEN 0 ELSE 1,
                     ![t].at = IF tripped THEN "record" ELSE "check"]
    /\ UNCHANGED <<riskVars, callVars, indVars, dashVars, dry_run, outage, started, _hold_cooldowns, orders>>

\* the for loop of evaluate up to the first write of a counter: HOLD and
\* vetoed decisions are finished here, a passed one has read trades_today
Check(t) ==
    /\ cyc[t].at = "check"
    /\ cyc[t].idx <= Len(cyc[t].decisions)
    /\ LET k   == cyc[t].idx
           d   == cyc[t].decisions[k]
           chk == _check_decision(d, Val(cyc[t].portfolio))
       IN  IF d.action = HOLD
           THEN cyc' = [cyc EXCEPT ![t].approved = AppendApproved(@, k, d),
                                   ![t].idx = k + 1]
           ELSE IF chk.raised
           THEN cyc' = [cyc EXCEPT ![t].at = "aborted"]
           ELSE IF chk.vetoed
           THEN cyc' = [cyc EXCEPT
                          ![t].decisions[k] = Veto(d, chk.reason),
                          ![t].approved = AppendApproved(@, k, Veto(d, chk.reason)),
                          ![t].idx = k + 1]
           ELSE cyc' = [cyc EXCEPT ![t].reg = trades_today,
                                   ![t].at = "store_trades"]
    /\ UNCHANGED <<riskVars, callVars, indVars, dashVars, dry_run, outage, started, _hold_cooldowns, orders>>

\* self.trades_today += 1 is written back; a BUY of a priced holding goes on
\* to read session_spent
StoreTrades(t) ==
    /\ cyc[t].at = "store_trades"
    /\ trades_today' = cyc[t].reg + 1
    /\ LET k == cyc[t].idx
           d == cyc[t].decisions[k]
       IN  IF SpentBy(d, Val(cyc[t].portfolio)) > 0
           THEN cyc' = [cyc EXCEPT ![t].reg = session_spent,
                                   ![t].at = "store_spent"]
           ELSE cyc' = [cyc EXCEPT ![t].approved = AppendApproved(@, k, d),
                                   ![t].idx = k + 1,
                                   ![t].at = "check"]
    /\ UNCHANGED <<config, store, loss_sales, executions, now, session_spent,
                   callVars, indVars, dashVars, dry_run, outage, started, _hold_cooldowns, orders>>

\* self.session_spent += decision.quantity * price is written back
StoreSpent(t) ==
    /\ cyc[t].at = "store_spent"
    /\ LET k == cyc[t].idx
           d == cyc[t].decisions[k]
       IN  /\ session_spent' = cyc[t].reg + SpentBy(d, Val(cyc[t].portfolio))
           /\ cyc' = [cyc EXCEPT ![t].approved = AppendApproved(@, k, d),
                                 ![t].idx = k + 1,
                                 ![t].at = "check"]
    /\ UNCHANGED <<config, store, loss_sales, executions, now, trades_today,
                   callVars, indVars, dashVars, dry_run, outage, started, _hold_cooldowns, orders>>

\* return approved
ReturnApproved(t) ==
    /\ cyc[t].at = "check"
    /\ cyc[t].idx > Len(cyc[t].decisions)
    /\ cyc' = [cyc EXCEPT ![t].at = "record"]
    /\ UNCHANGED <<riskVars, callVars, indVars, dashVars, dry_run, outage, started, _hold_cooldowns, orders>>

\* variant: the execution loop is entered whatever dry_run says
RecordHolds_alwaysExecute(t) ==
    /\ cyc[t].at = "record"
    /\ _hold_cooldowns' =
          _record_holds([k \in DOMAIN cyc[t].approved |->
                            cyc[t].decisions[cyc[t].approved[k]]])
    /\ cyc' = [cyc EXCEPT ![t].trace = Append(@, "_record_holds"),
                          ![t].recorded = Some(now),
                          ![t].idx = 1,
                          ![t].at = "log"]
    /\ UNCHANGED <<riskVars, callVars, indVars, dashVars, dry_run, outage, started, orders>>

\* self._record_holds(approved), and the table of decisions is printed
RecordHolds(t) ==
    /\ cyc[t].at = "record"
    /\ _hold_cooldowns' =
          _record_holds([k \in DOMAIN cyc[t].approved |->
                            cyc[t].decisions[cyc[t].approved[k]]])
    /\ cyc' = [cyc EXCEPT ![t].trace = Append(@, "_record_holds"),
                          ![t].recorded = Some(now),
                          ![t].idx = 1,
                          ![t].at = IF dry_run THEN "dry" ELSE "log"]
    /\ UNCHANGED <<riskVars, callVars, indVars, dashVars, dry_run, outage, started, orders>>

\* dry run: every returned decision is logged, none is executed
DryRun(t) ==
    /\ cyc[t].at = "dry"
    /\ cyc' = [cyc EXCEPT
                 ![t].trace = @ \o [k \in DOMAIN cyc[t].approved |-> "log_decision"],
                 ![t].at = "done"]
    /\ UNCHANGED <<riskVars, callVars, indVars, dashVars, dry_run, outage, started, _hold_cooldowns, orders>>

\* decision_id = self.store.log_decision(d, vetoed=vetoed), and the test that
\* guards execute_decision
LogDecision(t) ==
    /\ cyc[t].at = "log"
    /\ cyc[t].idx <= Len(cyc[t].approved)
    /\ cyc' = [cyc EXCEPT
                 ![t].trace = Append(@, "log_decision"),
                 ![t].idx = IF ShouldExecute(Current(t)) THEN @ ELSE @ + 1,
                 ![t].at = IF ShouldExecute(Current(t)) THEN "lookup" ELSE "log"]
    /\ UNCHANGED <<riskVars, callVars, indVars, dashVars, dry_run, outage, started, _hold_cooldowns, orders>>

\* execute_decision is entered: a HOLD returns None; otherwise the open orders
\* of the symbol are looked up (a failed lookup answers []) and an open order
\* raises ValueError, which run_cycle prints
GetOpenOrders(t) ==
    /\ cyc[t].at = "lookup"
    /\ \E failed \in BOOLEAN :
          LET d == Current(t)
              open_orders == IF failed THEN {}
                             ELSE {k \in DOMAIN orders : orders[k].symbol = d.symbol}
          IN  cyc' = [cyc EXCEPT
                        ![t].trace = Append(@, "execute_decision"),
                        ![t].idx = IF d.action = HOLD \/ open_orders # {}
                                   THEN @ + 1 ELSE @,
                        ![t].at = IF d.action = HOLD \/ open_orders # {}
                                  THEN "log" ELSE "submit"]
    /\ UNCHANGED <<riskVars, callVars, indVars, dashVars, dry_run, outage, started, _hold_cooldowns, orders>>

\* variant: the exception of submit_order is not caught by run_cycle
SubmitOrder_fatal(t) ==
    /\ cyc[t].at = "submit"
    /\ \/ /\ orders' = Append(orders, Order(Current(t).symbol, Current(t).action))
          /\ cyc' = [cyc EXCEPT ![t].at = "logexec"]
       \/ /\ orders' = orders
          /\ cyc' = [cyc EXCEPT ![t].at = "aborted"]
    /\ UNCHANGED <<riskVars, callVars, indVars, dashVars, dry_run, outage, started, _hold_cooldowns>>

\* order = self.trading.submit_order(request): accepted, or an exception that
\* run_cycle prints
SubmitOrder(t) ==
    /\ cyc[t].at = "submit"
    /\ \/ /\ orders' = Append(orders, Order(Current(t).symbol, Current(t).action))
          /\ cyc' = [cyc EXCEPT ![t].at = "logexec"]
       \/ /\ orders' = orders
          /\ cyc' = [cyc EXCEPT ![t].idx = @ + 1, ![t].at = "log"]
    /\ UNCHANGED <<riskVars, callVars, indVars, dashVars, dry_run, outage, started, _hold_cooldowns>>

\* variant: every executed SELL of a stock is recorded as a loss sale
LogExecution_anySell(t) ==
    /\ cyc[t].at = "logexec"
    /\ LET d   == Current(t)
           pos == FindPosition(Val(cyc[t].portfolio), d.symbol)
           loss == /\ d.action = SELL
                   /\ ~Contains("/", d.symbol)
                   /\ ~IsNone(pos)
       IN  /\ executions' = Append(executions, ExecRow(now, d.symbol, d.action))
           /\ loss_sales' = IF loss
                            THEN Append(loss_sales,
                                        LossRow(now, d.symbol, Val(pos).unrealized_pl))
                            ELSE loss_sales
           /\ cyc' = [cyc EXCEPT
                        ![t].trace = @ \o (IF loss THEN <<"log_execution", "log_loss_sale">>
                                           ELSE <<"log_execution">>),
                        ![t].idx = @ + 1,
                        ![t].at = "log"]
    /\ UNCHANGED <<config, store, now, trades_today, session_spent, callVars, indVars, dashVars,
                   dry_run, outage, started, _hold_cooldowns, orders>>

\* self.store.log_execution(decision_id, order), and log_loss_sale for a SELL
\* of a stock held at a loss
LogExecution(t) ==
    /\ cyc[t].at = "logexec"
    /\ LET d   == Current(t)
           pos == FindPosition(Val(cyc[t].portfolio), d.symbol)
           loss == /\ d.action = SELL
                   /\ ~Contains("/", d.symbol)
                   /\ ~IsNone(pos)
                   /\ Val(pos).unrealized_pl < 0
       IN  /\ executions' = Append(executions, ExecRow(now, d.symbol, d.action))
           /\ loss_sales' = IF loss
                            THEN Append(loss_sales,
                                        LossRow(now, d.symbol, Val(pos).unrealized_pl))
                            ELSE loss_sales
           /\ cyc' = [cyc EXCEPT
                        ![t].trace = @ \o (IF loss THEN <<"log_execution", "log_loss_sale">>
                                           ELSE <<"log_execution">>),
                        ![t].idx = @ + 1,
                        ![t].at = "log"]
    /\ UNCHANGED <<config, store, now, trades_today, session_spent, callVars, indVars, dashVars,
                   dry_run, outage, started, _hold_cooldowns, orders>>

\* the execution loop is over: "Cycle Complete"
CycleComplete(t) ==
    /\ cyc[t].at = "log"
    /\ cyc[t].idx > Len(cyc[t].approved)
    /\ cyc' = [cyc EXCEPT ![t].at = "done"]
    /\ UNCHANGED <<riskVars, callVars, indVars, dashVars, dry_run, outage, started, _hold_cooldowns, orders>>

\* a step of run_cycle by thread t
run_cycle(t) ==
    \/ BuildWatchlist(t) \/ FetchPortfolio(t) \/ FetchMarketData(t) \/ Analyze(t)
    \/ Breaker(t) \/ Check(t) \/ StoreTrades(t) \/ StoreSpent(t) \/ ReturnApproved(t)
    \/ RecordHolds(t) \/ DryRun(t) \/ LogDecision(t) \/ GetOpenOrders(t)
    \/ SubmitOrder(t) \/ LogExecution(t) \/ CycleComplete(t)

\* cycles requested one after the other
NextCycle == \E t \in Threads : RunNowWhenIdle(t) \/ run_cycle(t)

SpecCycle == InitCycle /\ [][NextCycle]_vars

\* the same cycles while some of the feeds are down
SpecFeeds == InitFeeds /\ [][NextCycle]_vars

\* cycles of both lanes called one after the other, the engine idle in between
InitLanes == InitEngine /\ config = RiskConfigDefaults /\ orders = <<>> /\ outage = {}

NextLanes ==
    \/ Sleep
    \/ \E t \in Threads : (\E crypto \in BOOLEAN : CallRunCycle(t, crypto)) \/ run_cycle(t)

SpecLanes == InitLanes /\ [][NextLanes]_vars

\* longest time the engine is followed for, in days
MaxDays == 30

\* the holdings of an account whose stock and crypto positions are down
HeldAtLoss ==
    <<Position(AAPL, 5, 150, -50), Position(FORD, 100, 9, 10),
      Position(UNIUSD, 100, 5, -20)>>

LossPortfolios == {Snapshot(100000, 50000, HeldAtLoss, 0)}

\* an analyst that trades: a SELL or a BUY for every symbol, and a BUY that
\* came without a quantity
TradeProposals ==
    {Decision(AAPL, SELL, Some(5), <<>>),
     Decision(AAPL, BUY, Some(95), <<>>),
     Decision(AAPL, BUY, None, <<>>),
     Decision(FORD, SELL, Some(100), <<>>),
     Decision(FORD, BUY, Some(233), <<>>),
     Decision(UNIUSD, SELL, Some(100), <<>>),
     Decision(UNIUSD, BUY, Some(10), <<>>)}

TradeAnswers(watchlist) ==
    {b \in [DOMAIN watchlist -> TradeProposals] :
        \A k \in DOMAIN watchlist : b[k].symbol = watchlist[k]}

\* the process stays up, idle, for most of the wash-sale window or all of it
DaysPass ==
    /\ started >= 1
    /\ \A u \in Threads : ~Running(u)
    /\ \E days \in {WASH_SALE_DAYS - 1, WASH_SALE_DAYS} :
          /\ now + days * MinutesPerDay <= T0 + MaxDays * MinutesPerDay
          /\ now' = now + days * MinutesPerDay
    /\ UNCHANGED <<config, store, loss_sales, executions, trades_today,
                   session_spent, callVars, cycVars, indVars, dashVars>>

\* a step of run_cycle by thread t, on that account and with that analyst
trading_cycle(t) ==
    \/ BuildWatchlist(t) \/ FetchPortfolioOf(t, LossPortfolios) \/ FetchMarketData(t)
    \/ AnalyzeOf(t, TradeAnswers(cyc[t].watchlist))
    \/ Breaker(t) \/ Check(t) \/ StoreTrades(t) \/ StoreSpent(t) \/ ReturnApproved(t)
    \/ RecordHolds(t) \/ DryRun(t) \/ LogDecision(t) \/ GetOpenOrders(t)
    \/ SubmitOrder(t) \/ LogExecution(t) \/ CycleComplete(t)

\* cycles of both lanes over the days
InitDays == InitEngine /\ orders = <<>> /\ outage = {}

NextDays ==
    \/ DaysPass
    \/ \E t \in Threads :
          (\E crypto \in BOOLEAN : CallRunCycle(t, crypto)) \/ trading_cycle(t)

SpecDays == InitDays /\ [][NextDays]_vars

\* POST /api/hold-all: the switch is flipped, here between two cycles
api_hold_all ==
    /\ \A u \in Threads : ~Running(u)
    /\ _hold_all' = ~_hold_all
    /\ UNCHANGED <<riskVars, callVars, cycVars, indVars, _run_cycle_fn>>

\* guarded_cycle() of --schedule mode, called by the scheduler job, by the
\* startup thread or by the thread of /api/force-cycle.  With HOLD ALL on it
\* logs a snapshot (an exception of the broker is swallowed) and returns.
\* Otherwise it calls run_cycle with the keyword skip_ai, which run_cycle does
\* not take: each call raises TypeError, and the except branch prints it.
guarded_cycle(t) ==
    /\ \A u \in Threads : ~Running(u)
    /\ started < MaxCycles
    /\ t = started + 1
    /\ cyc[t].at = "not started"
    /\ started' = started + 1
    /\ IF _hold_all
       THEN \/ cyc' = [cyc EXCEPT
                         ![t].trace = <<"get_portfolio_snapshot", "log_snapshot">>,
                         ![t].at = "done"]
            \/ cyc' = [cyc EXCEPT
                         ![t].trace = <<"get_portfolio_snapshot">>,
                         ![t].at = "done"]
       ELSE \E equity_hours \in BOOLEAN :
              cyc' = [cyc EXCEPT
                        ![t].trace =
                            (IF equity_hours THEN <<"TypeError">> ELSE <<>>)
                            \o (IF ConfigCryptoWatchlist # <<>>
                                THEN <<"TypeError">> ELSE <<>>),
                        ![t].at = "done"]
    /\ UNCHANGED <<riskVars, callVars, indVars, dashVars, dry_run, outage,
                   _hold_cooldowns, orders>>

\* a cycle is triggered: the registered function runs
TriggerCycle(t) ==
    \/ _run_cycle_fn = "run_cycle" /\ RunNowWhenIdle(t)
    \/ _run_cycle_fn = "guarded_cycle" /\ guarded_cycle(t)

\* the process started with --schedule or with --dashboard, HOLD ALL off
InitHold ==
    /\ EngineConstructed
    /\ config = RiskConfigDefaults
    /\ orders = <<>>
    /\ outage = {}
    /\ _run_cycle_fn \in {"guarded_cycle", "run_cycle"}
    /\ _hold_all = FALSE

NextHold == api_hold_all \/ \E t \in Threads : TriggerCycle(t) \/ run_cycle(t)

SpecHold == InitHold /\ [][NextHold]_vars

\* cycles requested at any time, with a session budget and no order open yet
InitRace == InitCycle /\ ~IsNone(config.session_budget) /\ orders = <<>>

NextRace == \E t \in Threads : api_force_cycle(t) \/ run_cycle(t)

SpecRace == InitRace /\ [][NextRace]_vars

----------------------------------------------------------------------------
(* The indicator engine: compute_indicators and its helpers                   *)
(*                                                                            *)
(* Closes and volumes are integers. An average is the exact rational number   *)
(* the float approximates, kept in lowest terms. Of the mapping returned for  *)
(* a symbol, the keys, the RSI, MACD and streak entries are computed; the     *)
(* value of every other entry is the token Formatted. A number formatted     *)
(* with one decimal, "w.d", is the pair <<w, d>>.                             *)

MaxBars == 36

\* longest history with changing increments
MaxRising == 20

\* longest history that both rises and falls
MaxChoppy == 16

\* most day-over-day moves of a history of free moves
MaxMoves == 6

RECURSIVE GCD(_, _)
GCD(a, b) == IF b = 0 THEN a ELSE GCD(b, a % b)

\* the rational num / den (num >= 0, den > 0) in lowest terms
Rat(num, den) ==
    LET g == GCD(num, den) IN [num |-> num \div g, den |-> den \div g]

RECURSIVE Sum(_)
Sum(xs) == IF xs = <<>> THEN 0 ELSE xs[1] + Sum(Tail(xs))

\* xs[:n]
Prefix(xs, n) == IF Len(xs) <= n THEN xs ELSE SubSeq(xs, 1, n)

\* xs[-n:]
Suffix(xs, n) == IF Len(xs) <= n THEN xs ELSE SubSeq(xs, Len(xs) - n + 1, Len(xs))

\* the value of an entry whose digits are not computed
Formatted == "..."

\* f"{x:.1f}" of a rational x >= 0: rounded to the nearest tenth, a tie to the
\* even digit
Format1(x) ==
    LET whole  == x.num \div x.den
        rest   == x.num % x.den
        digit  == (10 * rest) \div x.den
        rest2  == (10 * rest) % x.den
        up     == IF 2 * rest2 > x.den \/ (2 * rest2 = x.den /\ digit % 2 = 1)
                  THEN 1 ELSE 0
        tenths == 10 * whole + digit + up
    IN  <<tenths \div 10, tenths % 10>>

\* the for loop of _rsi over xs[period:]: Wilder's smoothing, avgs holding the
\* first average and the value the loop gave it after each element so far
RECURSIVE Smoothed(_, _, _)
Smoothed(avgs, xs, period) ==
    IF period + Len(avgs) > Len(xs) THEN avgs[Len(avgs)]
    ELSE LET avg == avgs[Len(avgs)]
             x   == xs[period + Len(avgs)]
         IN  Smoothed(Append(avgs, Rat(avg.num * (period - 1) + x * avg.den,
                                       avg.den * period)),
                      xs, period)

\* variant: the deltas are taken backwards, closes[i - 1] - closes[i]
_rsi_reversedDeltas(closes, period) ==
    LET deltas == [i \in 1..(Len(closes) - 1) |-> closes[i] - closes[i + 1]]
        gains  == [i \in DOMAIN deltas |-> IF deltas[i] > 0 THEN deltas[i] ELSE 0]
        losses == [i \in DOMAIN deltas |-> IF deltas[i] < 0 THEN -deltas[i] ELSE 0]
        avg_gain == Smoothed(<<Rat(Sum(Prefix(gains, period)), period)>>, gains, period)
        avg_loss == Smoothed(<<Rat(Sum(Prefix(losses, period)), period)>>, losses, period)
    IN  IF avg_loss.num = 0
        THEN Rat(100, 1)
        ELSE Rat(100 * avg_gain.num * avg_loss.den,
                 avg_gain.num * avg_loss.den + avg_loss.num * avg_gain.den)

\* _rsi: 100 when the smoothed average loss is 0, else 100 - 100 / (1 + rs)
\* with rs = avg_gain / avg_loss, which is 100 * avg_gain / (avg_gain + avg_loss)
_rsi(closes, period) ==
    LET deltas == [i \in 1..(Len(closes) - 1) |-> closes[i + 1] - closes[i]]
        gains  == [i \in DOMAIN deltas |-> IF deltas[i] > 0 THEN deltas[i] ELSE 0]
        losses == [i \in DOMAIN deltas |-> IF deltas[i] < 0 THEN -deltas[i] ELSE 0]
        avg_gain == Smoothed(<<Rat(Sum(Prefix(gains, period)), period)>>, gains, period)
        avg_loss == Smoothed(<<Rat(Sum(Prefix(losses, period)), period)>>, losses, period)
    IN  IF avg_loss.num = 0
        THEN Rat(100, 1)
        ELSE Rat(100 * avg_gain.num * avg_loss.den,
                 avg_gain.num * avg_loss.den + avg_loss.num * avg_gain.den)

\* variant: a flat day is stepped over instead of ending the count
RECURSIVE StreakFrom_throughFlat(_, _, _)
StreakFrom_throughFlat(closes, i, streak) ==
    IF /\ i >= 2
       /\ \/ closes[i] > closes[i - 1] /\ streak >= 0
          \/ closes[i] < closes[i - 1] /\ streak <= 0
          \/ closes[i] = closes[i - 1]
    THEN StreakFrom_throughFlat(closes, i - 1,
                                IF closes[i] > closes[i - 1] THEN streak + 1
                                ELSE IF closes[i] < closes[i - 1] THEN streak - 1
                                ELSE streak)
    ELSE streak

\* the for loop of _streak has not reached a break at position i: the close
\* moved that day, and not against the run counted so far
StreakGoesOn(closes, i, streak) ==
    /\ i >= 2
    /\ \/ closes[i] > closes[i - 1] /\ streak >= 0
       \/ closes[i] < closes[i - 1] /\ streak <= 0

\* _streak: the run of rises (positive) or falls (negative) that ends the list
RECURSIVE StreakFrom(_, _, _)
StreakFrom(closes, i, streak) ==
    IF StreakGoesOn(closes, i, streak)
    THEN StreakFrom(closes, i - 1,
                    IF closes[i] > closes[i - 1] THEN streak + 1 ELSE streak - 1)
    ELSE streak

_streak(closes) == IF Len(closes) < 2 THEN 0 ELSE StreakFrom(closes, Len(closes), 0)

\* the entries of one symbol, as (key, value) pairs: simple moving averages
SmaEntries(closes) ==
    (IF Len(closes) >= 10 THEN {<<"SMA_10", Formatted>>} ELSE {})
    \cup (IF Len(closes) >= 20 THEN {<<"SMA_20", Formatted>>} ELSE {})

\* RSI (14-period)
RsiEntries(closes) ==
    IF Len(closes) >= 15
    THEN LET rsi == _rsi(closes, 14)
         IN  {<<"RSI_14", Format1(rsi)>>,
              <<"RSI_signal", IF rsi.num > 70 * rsi.den THEN "OVERBOUGHT"
                              ELSE IF rsi.num < 30 * rsi.den THEN "OVERSOLD"
                              ELSE "NEUTRAL">>}
    ELSE {}

Abs(x) == IF x < 0 THEN -x ELSE x

\* the rational num / den (den > 0) of either sign, in lowest terms
SRat(num, den) ==
    LET g == GCD(Abs(num), den) IN [num |-> num \div g, den |-> den \div g]

\* a - b
Minus(a, b) == SRat(a.num * b.den - b.num * a.den, a.den * b.den)

\* sum(xs) of rationals, from the left: totals holds 0 and the running total
\* after each element added so far
RECURSIVE TotalFrom(_, _)
TotalFrom(xs, totals) ==
    IF Len(totals) > Len(xs) THEN totals[Len(totals)]
    ELSE LET x     == xs[Len(totals)]
             total == totals[Len(totals)]
         IN  TotalFrom(xs, Append(totals, SRat(total.num * x.den + x.num * total.den,
                                               total.den * x.den)))

Total(xs) == TotalFrom(xs, <<SRat(0, 1)>>)

\* sum(xs) / len(xs) of rationals

Mean(xs) == LET total == Total(xs) IN SRat(total.num, total.den * Len(xs))

\* the for loop of _ema over values[period:], ema holding the averages so far:
\* (val - ema[-1]) * multiplier + ema[-1] with multiplier = 2 / (period + 1),
\* which is (2 * val + (period - 1) * ema[-1]) / (period + 1)
RECURSIVE EmaFrom(_, _, _)
EmaFrom(values, period, ema) ==
    IF period + Len(ema) > Len(values) THEN ema
    ELSE LET val  == values[period + Len(ema)]
             prev == ema[Len(ema)]
         IN  EmaFrom(values, period,
                     Append(ema, SRat(2 * val.num * prev.den
                                        + (period - 1) * prev.num * val.den,
                                      (period + 1) * val.den * prev.den)))

\* _ema: the values themselves when there are fewer than period of them, else
\* the mean of the first period values followed by one average per later value
_ema(values, period) ==
    IF Len(values) < period THEN values
    ELSE EmaFrom(values, period, <<Mean(Prefix(values, period))>>)

\* zip(xs, ys) mapped to x - y: as long as the shorter list
Differences(xs, ys) ==
    [i \in 1..(IF Len(xs) <= Len(ys) THEN Len(xs) ELSE Len(ys)) |-> Minus(xs[i], ys[i])]

\* _macd with fast = 12, slow = 26, signal = 9: the last slow values of
\* ema_fast are zipped with ema_slow from its start
_macd(closes) ==
    LET values        == [i \in DOMAIN closes |-> SRat(closes[i], 1)]
        ema_fast      == _ema(values, 12)
        ema_slow      == _ema(values, 26)
        macd_series   == Differences(Suffix(ema_fast, 26), ema_slow)
        signal_series == _ema(macd_series, 9)
        macd_line     == macd_series[Len(macd_series)]
        signal_line   == signal_series[Len(signal_series)]
    IN  [macd_line |-> macd_line, signal_line |-> signal_line,
         histogram |-> Minus(macd_line, signal_line)]

\* f"{x:.4f}" of a rational x, as the number of ten-thousandths the text
\* reads as: rounded to the nearest, a tie to the even digit
Format4(x) ==
    LET scaled == Abs(x.num) * 10000
        whole  == scaled \div x.den
        rest   == scaled % x.den
        up     == IF 2 * rest > x.den \/ (2 * rest = x.den /\ whole % 2 = 1)
                  THEN 1 ELSE 0
    IN  IF x.num < 0 THEN -(whole + up) ELSE whole + up

\* MACD (12, 26, 9)
MacdEntries(closes) ==
    IF Len(closes) >= 35
    THEN LET macd == _macd(closes)
         IN  {<<"MACD", Format4(macd.macd_line)>>,
              <<"MACD_signal", Format4(macd.signal_line)>>,
              <<"MACD_histogram", Format4(macd.histogram)>>,
              <<"MACD_trend", IF macd.histogram.num > 0 THEN "BULLISH" ELSE "BEARISH">>}
    ELSE {}

\* the Bollinger branch divides by upper - lower = 4 * std when the last close
\* is inside the band: a window of 20 equal closes has std = 0 and its last
\* close is the middle, so the division raises ZeroDivisionError
BollingerRaises(closes) ==
    /\ Len(closes) >= 20
    /\ \A i, j \in DOMAIN Suffix(closes, 20) : Suffix(closes, 20)[i] = Suffix(closes, 20)[j]

\* Bollinger Bands (20-period)
BollingerEntries(closes) ==
    IF Len(closes) >= 20
    THEN {<<"BB_upper", Formatted>>, <<"BB_middle", Formatted>>,
          <<"BB_lower", Formatted>>, <<"BB_signal", Formatted>>}
    ELSE {}

\* the rule-based indicators: VWAP, ATR, volume anomaly, range position, gap
\* and streak
RuleEntries(symbol_bars) ==
    LET n       == Len(symbol_bars)
        closes  == [k \in DOMAIN symbol_bars |-> symbol_bars[k].close]
        highs   == {symbol_bars[k].high : k \in DOMAIN symbol_bars}
        lows    == {symbol_bars[k].low : k \in DOMAIN symbol_bars}
        volumes == [k \in DOMAIN symbol_bars |-> symbol_bars[k].volume]
        traded  == SelectSeq(Suffix(volumes, 20), LAMBDA v : v > 0)
        high_max == CHOOSE h \in highs : \A x \in highs : x <= h
        low_min  == CHOOSE l \in lows : \A x \in lows : l <= x
        prev_close == symbol_bars[n - 1].close
        today_open == symbol_bars[n].open
        move     == IF today_open >= prev_close THEN today_open - prev_close
                    ELSE prev_close - today_open
        streak   == _streak(closes)
        run      == IF streak < 0 THEN -streak ELSE streak
    IN  (IF n >= 5 /\ Sum(traded) > 0
         THEN {<<"VWAP", Formatted>>, <<"VWAP_signal", Formatted>>} ELSE {})
        \cup (IF n >= 15
              THEN {<<"ATR_14", Formatted>>, <<"ATR_pct", Formatted>>,
                    <<"volatility", Formatted>>}
              ELSE {})
        \cup (IF n >= 20 /\ volumes[n] > 0 /\ Sum(Suffix(volumes, 20)) > 0
              THEN {<<"vol_ratio", Formatted>>, <<"vol_signal", Formatted>>} ELSE {})
        \cup (IF n >= 20 /\ high_max - low_min > 0
              THEN {<<"range_position", Formatted>>, <<"range_signal", Formatted>>}
              ELSE {})
        \cup (IF n >= 2 /\ prev_close > 0 /\ 100 * move >= prev_close
              THEN {<<"gap", Formatted>>} ELSE {})
        \cup (IF n >= 2 /\ run >= 2
              THEN {<<"streak", <<run, IF streak > 0 THEN "UP" ELSE "DOWN">>>>} ELSE {})
        \cup (IF n >= 2 /\ run >= 2 /\ run >= 5
              THEN {<<"streak_signal", "REVERSAL LIKELY">>} ELSE {})

\* the body of the for loop of compute_indicators after the length test
Entries(symbol_bars) ==
    LET closes == [k \in DOMAIN symbol_bars |-> symbol_bars[k].close]
    IN  SmaEntries(closes) \cup RsiEntries(closes) \cup MacdEntries(closes)
        \cup BollingerEntries(closes) \cup RuleEntries(symbol_bars)

\* compute_indicators: symbol -> key -> value, without the symbols that have
\* fewer than 5 bars or no entry; an exception in the loop leaves no mapping
compute_indicators(symbol_to_bars) ==
    IF \E s \in DOMAIN symbol_to_bars :
          /\ Len(symbol_to_bars[s]) >= 5
          /\ BollingerRaises([k \in DOMAIN symbol_to_bars[s] |-> symbol_to_bars[s][k].close])
    THEN [raised |-> TRUE, value |-> << >>]
    ELSE [raised |-> FALSE,
          value |->
            [symbol \in {s \in DOMAIN symbol_to_bars :
                            Len(symbol_to_bars[s]) >= 5 /\ Entries(symbol_to_bars[s]) # {}}
                |-> LET entries == Entries(symbol_to_bars[symbol])
                    IN  [key \in {e[1] : e \in entries}
                            |-> (CHOOSE e \in entries : e[1] = key)[2]]]]

\* a DailyBar whose four prices are the close
DailyBar(close, volume) ==
    [open |-> close, high |-> close, low |-> close, close |-> close, volume |-> volume]

\* the close of day i of a history that starts at 100 and changes by the
\* increments of the pattern, over and over
CloseAt(pattern, i) ==
    LET rounds == (i - 1) \div Len(pattern)
        left   == (i - 1) % Len(pattern)
    IN  100 + rounds * Sum(pattern) + Sum(Prefix(pattern, left))

\* a history of n bars
History(pattern, n, volume) == [i \in 1..n |-> DailyBar(CloseAt(pattern, i), volume)]

\* every choice of a rise, a flat day or a fall for each of k moves
Moves(k) == [1..k -> {1, 0, -1}]

\* the histories a symbol may come with: steady ones of any length, an uneven
\* rise, one that rises and falls, and short ones of free moves
Histories ==
    {History(pattern, n, volume) :
        pattern \in {<<0>>, <<1>>, <<-1>>}, n \in 0..MaxBars, volume \in {0, 1000}}
    \cup {History(<<1, 3, 2>>, n, volume) : n \in 0..MaxRising, volume \in {0, 1000}}
    \cup {History(<<2, -1>>, n, volume) : n \in 0..MaxChoppy, volume \in {0, 1000}}
    \cup UNION {{History(pattern, k + 1, 1000) : pattern \in Moves(k)} : k \in 1..MaxMoves}

\* the engine is handed the bars of one symbol
InitIndicators ==
    /\ config = RiskConfigDefaults
    /\ store = "None"
    /\ loss_sales = NoTables.loss_sales
    /\ executions = NoTables.executions
    /\ now = T0
    /\ trades_today = 0
    /\ session_spent = 0
    /\ pc = "idle"
    /\ proposals = <<>>
    /\ decisions = <<>>
    /\ portfolio = None
    /\ approved = <<>>
    /\ idx = 0
    /\ result = None
    /\ entry = NoCall
    /\ calls = 0
    /\ dry_run = TRUE
    /\ cyc = [t \in Threads |-> NotStarted]
    /\ started = 0
    /\ _hold_cooldowns = << >>
    /\ orders = <<>>
    /\ outage = {}
    /\ bars \in {[symbol \in {AAPL} |-> history] : history \in Histories}
    /\ indicators = None
    /\ _run_cycle_fn = "run_cycle"
    /\ _hold_all = FALSE

\* indicators = compute_indicators(bars)
CallComputeIndicators ==
    /\ IsNone(indicators)
    /\ bars # << >>
    /\ indicators' = Some(compute_indicators(bars))
    /\ UNCHANGED <<riskVars, callVars, cycVars, bars, dashVars>>

SpecIndicators == InitIndicators /\ [][CallComputeIndicators]_vars

----------------------------------------------------------------------------
(* Vocabulary of the properties, stated on the raw values *)

\* a call of evaluate is in progress or has just returned
InCall == pc \in {"loop", "returned"}

\* the circuit-breaker condition on the values evaluate was entered with
TrippedAtEntry ==
    \/ Val(portfolio).daily_pl_pct < -(config.daily_loss_limit_pct * 10)
    \/ entry.trades_today >= config.max_trades_per_day

\* the for loop is about to process, or processes in this step, position idx
AtDecision == pc = "loop" /\ idx \in DOMAIN decisions

\* this step is the iteration of the for loop on position idx
Iteration == AtDecision /\ idx' = idx + 1

\* decision d carries a veto whose reason starts with kind
VetoedFor(d, kind) ==
    /\ d.action = HOLD
    /\ Len(d.risk_notes) >= 2
    /\ d.risk_notes[1] = "VETOED: "
    /\ d.risk_notes[2] = kind

IsVetoed(d) == Len(d.risk_notes) >= 1 /\ d.risk_notes[1] = "VETOED: "

\* C1: evaluate returns the empty list when the circuit breaker trips, and
\* otherwise a list as long as the batch whose i-th decision is for the symbol
\* of the i-th proposal.
C1_SameLengthAndOrder ==
    pc = "returned" =>
        IF TrippedAtEntry
        THEN Val(result) = <<>>
        ELSE /\ Len(Val(result)) = Len(proposals)
             /\ \A k \in DOMAIN proposals : Val(result)[k].symbol = proposals[k].symbol

C1_Witness ==
    /\ pc = "returned"
    /\ ~TrippedAtEntry
    /\ Len(Val(result)) = 2
    /\ Val(result)[1].symbol # Val(result)[2].symbol
    /\ IsVetoed(Val(result)[1])
    /\ Val(result)[2].action = BUY

\* C2: a call entered with daily_pl_pct strictly below -daily_loss_limit_pct, or
\* with trades_today >= max_trades_per_day, returns the empty list whatever the
\* batch; a daily_pl_pct equal to -daily_loss_limit_pct does not trip the breaker.
C2_CircuitBreaker ==
    InCall =>
        /\ TrippedAtEntry => (pc = "returned" /\ Val(result) = <<>>)
        /\ ( /\ Val(portfolio).daily_pl_pct = -(config.daily_loss_limit_pct * 10)
             /\ entry.trades_today < config.max_trades_per_day )
           => \/ pc = "loop"
              \/ Len(Val(result)) = Len(proposals)

C2_Witness ==
    /\ pc = "returned"
    /\ entry.trades_today >= config.max_trades_per_day
    /\ Val(portfolio).daily_pl_pct = 0
    /\ Len(proposals) >= 1
    /\ \A k \in DOMAIN proposals : proposals[k].action = HOLD
    /\ Val(result) = <<>>

\* C3: when the breaker is not tripped a HOLD proposal is appended and returned
\* as it was passed in, and processing it changes neither trades_today nor
\* session_spent.
C3_HoldUntouched ==
    /\ [](pc = "returned" /\ ~TrippedAtEntry =>
            \A k \in DOMAIN proposals :
                proposals[k].action = HOLD => Val(result)[k] = proposals[k])
    /\ [][Iteration /\ proposals[idx].action = HOLD =>
            /\ decisions'[idx] = proposals[idx]
            /\ approved' = Append(approved, idx)
            /\ trades_today' = trades_today
            /\ session_spent' = session_spent]_vars

C3_Witness ==
    /\ pc = "returned"
    /\ Len(proposals) = 2
    /\ Len(Val(result)) = 2
    /\ proposals[1].action = BUY
    /\ proposals[2].action = HOLD
    /\ Val(result)[1].action = BUY
    /\ Val(result)[2] = proposals[2]
    /\ trades_today = entry.trades_today + 1

\* C4: a BUY or SELL that fails a risk check comes back as HOLD with no quantity
\* and risk_notes "VETOED: " followed by the reason; one that passes keeps its
\* action and quantity.
C4_VetoEffect ==
    [][Iteration /\ proposals[idx].action \in {BUY, SELL} =>
         LET d   == proposals[idx]
             chk == _check_decision(d, Val(portfolio))
             out == decisions'[idx]
         IN  IF chk.vetoed
             THEN /\ out.action = HOLD
                  /\ out.quantity = None
                  /\ Head(out.risk_notes) = "VETOED: "
                  /\ Tail(out.risk_notes) = chk.reason
                  /\ chk.reason # <<>>
                  /\ out.symbol = d.symbol
             ELSE /\ out.action = d.action
                  /\ out.quantity = d.quantity]_vars

C4_Witness ==
    /\ pc = "returned"
    /\ Len(proposals) = 2
    /\ Len(Val(result)) = 2
    /\ proposals[1].action = SELL
    /\ VetoedFor(Val(result)[1], "Sell qty (")
    /\ Val(result)[1].quantity = None
    /\ proposals[2].action = BUY
    /\ Val(result)[2] = proposals[2]

----------------------------------------------------------------------------
(* The BUY rules as the documentation words them, on the raw values *)

\* the symbol has a recorded loss sale less than WASH_SALE_DAYS old
RecentLoss(symbol) ==
    \E k \in DOMAIN loss_sales :
        /\ loss_sales[k].symbol = symbol
        /\ now - loss_sales[k].timestamp < WASH_SALE_DAYS * MinutesPerDay

HeldAt(pf, symbol) ==
    IF IsNone(FindPosition(pf, symbol)) THEN 0
    ELSE Val(FindPosition(pf, symbol)).current_price

HeldValue(pf, symbol) ==
    IF IsNone(FindPosition(pf, symbol)) THEN 0
    ELSE Val(FindPosition(pf, symbol)).market_value

RuleQuantity(d) == IsNone(d.quantity) \/ Val(d.quantity) <= 0

RuleWash(d) == store = "DataStore" /\ ~IsCrypto(d.symbol) /\ RecentLoss(d.symbol)

RuleBudget(d, pf, spent) ==
    /\ ~IsNone(config.session_budget)
    /\ ~IsNone(d.quantity)
    /\ HeldAt(pf, d.symbol) > 0
    /\ spent + Val(d.quantity) * HeldAt(pf, d.symbol) > Val(config.session_budget)

RuleReserve(pf) ==
    IF pf.equity = 0 THEN 0 <= config.min_cash_reserve_pct
    ELSE pf.buying_power * 100 <= config.min_cash_reserve_pct * pf.equity

Ceiling(symbol, price) ==
    IF ~IsCrypto(symbol) /\ price < config.low_price_threshold
    THEN config.low_price_max_position_pct
    ELSE config.max_position_pct

RuleConcentration(d, pf) ==
    /\ ~IsNone(d.quantity)
    /\ HeldAt(pf, d.symbol) > 0
    /\ pf.equity > 0
    /\ (HeldValue(pf, d.symbol) + Val(d.quantity) * HeldAt(pf, d.symbol)) * 100
          > Ceiling(d.symbol, HeldAt(pf, d.symbol)) * pf.equity

\* the reason of the first rule violated, in the documented order
FirstViolated(d, pf, spent) ==
    IF RuleQuantity(d) THEN "Invalid quantity"
    ELSE IF RuleWash(d) THEN "Wash sale: "
    ELSE IF RuleBudget(d, pf, spent) THEN "Exceeds session budget "
    ELSE IF RuleReserve(pf) THEN "Buying power too low "
    ELSE IF RuleConcentration(d, pf) THEN "Position too large for "
    ELSE "none"

\* C5: a BUY that violates one or more rules is vetoed with the reason of the
\* first violated rule in the order invalid quantity, wash sale, session budget,
\* buying-power reserve, position concentration.
C5_FirstFailingRuleWins ==
    [][Iteration /\ proposals[idx].action = BUY =>
         LET first == FirstViolated(proposals[idx], Val(portfolio), session_spent)
         IN  first # "none" => VetoedFor(decisions'[idx], first)]_vars

C5_Witness ==
    /\ pc = "returned"
    /\ Len(Val(result)) >= 1
    /\ proposals[1].action = BUY
    /\ RuleWash(proposals[1])
    /\ RuleBudget(proposals[1], Val(portfolio), entry.session_spent)
    /\ RuleReserve(Val(portfolio))
    /\ RuleConcentration(proposals[1], Val(portfolio))
    /\ VetoedFor(Val(result)[1], "Wash sale: ")

\* C6: with a data store attached, a BUY with positive quantity of a non-crypto
\* symbol that has a loss sale less than 30 days old is vetoed for wash sale;
\* when its loss sales are all 30 days old or older, and for a crypto symbol,
\* the BUY is not vetoed for wash sale.
C6_WashSaleWindow ==
    [][Iteration /\ proposals[idx].action = BUY /\ store = "DataStore"
                 /\ ~RuleQuantity(proposals[idx]) =>
         LET d == proposals[idx]
         IN  IF ~IsCrypto(d.symbol) /\ RecentLoss(d.symbol)
             THEN VetoedFor(decisions'[idx], "Wash sale: ")
             ELSE ~VetoedFor(decisions'[idx], "Wash sale: ")]_vars

\* the newest loss sale of the symbol is exactly 30 days old and the BUY passes
C6_Witness ==
    /\ pc = "returned"
    /\ store = "DataStore"
    /\ Len(Val(result)) >= 1
    /\ proposals[1].action = BUY
    /\ \E k \in DOMAIN loss_sales :
          /\ loss_sales[k].symbol = proposals[1].symbol
          /\ now - loss_sales[k].timestamp = WASH_SALE_DAYS * MinutesPerDay
    /\ ~RecentLoss(proposals[1].symbol)
    /\ Val(result)[1] = proposals[1]

\* C7: with a session budget configured, a BUY that passed the quantity and
\* wash-sale checks is vetoed for budget exactly when the symbol is held at a
\* price > 0 and session_spent + quantity * price > session_budget.
C7_SessionBudget ==
    [][Iteration /\ proposals[idx].action = BUY /\ ~IsNone(config.session_budget)
                 /\ ~RuleQuantity(proposals[idx]) /\ ~RuleWash(proposals[idx]) =>
         LET d  == proposals[idx]
             pf == Val(portfolio)
         IN  VetoedFor(decisions'[idx], "Exceeds session budget ")
             <=> /\ ~IsNone(FindPosition(pf, d.symbol))
                 /\ HeldAt(pf, d.symbol) > 0
                 /\ session_spent + Val(d.quantity) * HeldAt(pf, d.symbol)
                       > Val(config.session_budget)]_vars

\* the first BUY spends the budget exactly and passes, the second is refused
C7_Witness ==
    /\ pc = "returned"
    /\ ~IsNone(config.session_budget)
    /\ Len(Val(result)) = 2
    /\ entry.session_spent = 0
    /\ session_spent = Val(config.session_budget)
    /\ Val(result)[1] = proposals[1]
    /\ proposals[2].action = BUY
    /\ VetoedFor(Val(result)[2], "Exceeds session budget ")

\* C8: a BUY that passed the quantity, wash-sale and budget checks is vetoed for
\* buying power exactly when buying_power / equity * 100 (0 when equity is 0) is
\* less than or equal to min_cash_reserve_pct.
C8_BuyingPowerReserve ==
    [][Iteration /\ proposals[idx].action = BUY
                 /\ ~RuleQuantity(proposals[idx]) /\ ~RuleWash(proposals[idx])
                 /\ ~RuleBudget(proposals[idx], Val(portfolio), session_spent) =>
         LET pf == Val(portfolio)
         IN  VetoedFor(decisions'[idx], "Buying power too low ")
             <=> IF pf.equity = 0
                 THEN 0 <= config.min_cash_reserve_pct
                 ELSE pf.buying_power * 100
                         <= config.min_cash_reserve_pct * pf.equity]_vars

\* buying power exactly at the reserve
C8_Witness ==
    /\ pc = "returned"
    /\ Len(Val(result)) >= 1
    /\ Val(portfolio).equity > 0
    /\ Val(portfolio).buying_power * 100
          = config.min_cash_reserve_pct * Val(portfolio).equity
    /\ proposals[1].action = BUY
    /\ VetoedFor(Val(result)[1], "Buying power too low ")

\* a BUY of FORD (a $9 stock) worth 4% of equity or more
FourPercentOfLowPriced(d, pf) ==
    /\ d.symbol = FORD
    /\ d.action = BUY
    /\ ~IsNone(d.quantity)
    /\ Val(d.quantity) * 9 * 100 >= 4 * pf.equity
    /\ Val(d.quantity) * 9 * 100 < RiskConfigDefaults.max_position_pct * pf.equity

\* the setting of C9: default limits, $100,000 equity, enough buying power, no
\* wash-sale lock on the symbol
C9_Setting(pf) ==
    /\ config = RiskConfigDefaults
    /\ ~TrippedAtEntry
    /\ pf.equity = 100000
    /\ pf.buying_power * 100 > config.min_cash_reserve_pct * pf.equity
    /\ ~(store = "DataStore" /\ RecentLoss(FORD))

VetoedLowPriceCeiling(d) ==
    /\ VetoedFor(d, "Position too large for ")
    /\ d.risk_notes = <<"VETOED: ", "Position too large for ", "low-priced ", "stock",
                        ToString(RiskConfigDefaults.low_price_max_position_pct)>>

\* C9 as stated: with no existing position in the $9 stock, the 4% BUY is vetoed
\* by the concentration rule with the 3% ceiling.
C9_Original ==
    pc = "returned" =>
        \A k \in DOMAIN proposals :
            ( /\ C9_Setting(Val(portfolio))
              /\ FourPercentOfLowPriced(proposals[k], Val(portfolio))
              /\ IsNone(FindPosition(Val(portfolio), FORD)) )
            => VetoedLowPriceCeiling(Val(result)[k])

\* C9 amended: the 4% BUY is vetoed by the concentration rule with the 3% ceiling
\* when the $9 stock is already held (the position supplies the price); with no
\* existing position the concentration rule is skipped and the BUY is returned
\* unchanged.
C9_LowPriceCeilingWhenHeld ==
    pc = "returned" =>
        \A k \in DOMAIN proposals :
            ( /\ C9_Setting(Val(portfolio))
              /\ FourPercentOfLowPriced(proposals[k], Val(portfolio)) )
            => IF IsNone(FindPosition(Val(portfolio), FORD))
               THEN Val(result)[k] = proposals[k]
               ELSE HeldAt(Val(portfolio), FORD) = 9
                    => VetoedLowPriceCeiling(Val(result)[k])

C9_Witness ==
    /\ pc = "returned"
    /\ Len(Val(result)) >= 1
    /\ C9_Setting(Val(portfolio))
    /\ FourPercentOfLowPriced(proposals[1], Val(portfolio))
    /\ HeldAt(Val(portfolio), FORD) = 9
    /\ VetoedLowPriceCeiling(Val(result)[1])

\* C10: a BUY of a symbol held at a price p > 0 that passed the earlier checks is
\* vetoed exactly when (market value + quantity * p) / equity * 100 is strictly
\* greater than the ceiling: low_price_max_position_pct for a non-crypto symbol
\* with p < low_price_threshold, max_position_pct otherwise.
C10_Concentration ==
    [][Iteration /\ proposals[idx].action = BUY
                 /\ ~RuleQuantity(proposals[idx]) /\ ~RuleWash(proposals[idx])
                 /\ ~RuleBudget(proposals[idx], Val(portfolio), session_spent)
                 /\ ~RuleReserve(Val(portfolio))
                 /\ HeldAt(Val(portfolio), proposals[idx].symbol) > 0 =>
         LET d  == proposals[idx]
             pf == Val(portfolio)
             p  == HeldAt(pf, d.symbol)
             ceiling == IF ~IsCrypto(d.symbol) /\ p < config.low_price_threshold
                        THEN config.low_price_max_position_pct
                        ELSE config.max_position_pct
             over == (HeldValue(pf, d.symbol) + Val(d.quantity) * p) * 100
                        > ceiling * pf.equity
         IN  /\ over => VetoedFor(decisions'[idx], "Position too large for ")
             /\ ~over => decisions'[idx] = d]_vars

\* a crypto position priced under the threshold grows past 3% and passes
C10_Witness ==
    /\ pc = "returned"
    /\ Len(Val(result)) >= 1
    /\ proposals[1].action = BUY
    /\ IsCrypto(proposals[1].symbol)
    /\ HeldAt(Val(portfolio), proposals[1].symbol) > 0
    /\ HeldAt(Val(portfolio), proposals[1].symbol) < config.low_price_threshold
    /\ (HeldValue(Val(portfolio), proposals[1].symbol)
          + Val(proposals[1].quantity) * HeldAt(Val(portfolio), proposals[1].symbol)) * 100
          > config.low_price_max_position_pct * Val(portfolio).equity
    /\ Val(result)[1] = proposals[1]

----------------------------------------------------------------------------
(* The SELL rules, on the raw values *)

\* no position of the snapshot is for the symbol
NoPosition(pf, symbol) == \A k \in DOMAIN pf.positions : pf.positions[k].symbol # symbol

\* quantity of the first position in the symbol
HeldQuantity(pf, symbol) == Val(FindPosition(pf, symbol)).quantity

\* the executed BUYs recorded for the symbol
BuysOf(symbol) ==
    {k \in DOMAIN executions : executions[k].symbol = symbol /\ executions[k].side = "buy"}

\* the most recent executed BUY of the symbol is less than MIN_HOLD_MINUTES old
RecentBuy(symbol) ==
    /\ BuysOf(symbol) # {}
    /\ \E k \in BuysOf(symbol) :
          /\ \A j \in BuysOf(symbol) : executions[j].timestamp <= executions[k].timestamp
          /\ now - executions[k].timestamp < MIN_HOLD_MINUTES

\* C11: a SELL of a symbol that has no position in the snapshot is vetoed, that
\* is returned as HOLD without quantity and with a "VETOED: No position" note,
\* whatever its quantity (absent, negative, zero or positive).
C11_SellWithoutPosition ==
    /\ [][Iteration /\ proposals[idx].action = SELL
                    /\ NoPosition(Val(portfolio), proposals[idx].symbol) =>
            /\ VetoedFor(decisions'[idx], "No position in ")
            /\ decisions'[idx].quantity = None
            /\ trades_today' = trades_today]_vars
    /\ [](pc = "returned" /\ ~TrippedAtEntry =>
            \A k \in DOMAIN proposals :
                (proposals[k].action = SELL
                   /\ NoPosition(Val(portfolio), proposals[k].symbol))
                => (Val(result)[k].action = HOLD /\ IsVetoed(Val(result)[k])))

\* a SELL without quantity of a symbol that is not held
C11_Witness ==
    /\ pc = "returned"
    /\ Len(Val(result)) = 1
    /\ proposals[1].action = SELL
    /\ proposals[1].quantity = None
    /\ Val(portfolio).positions # <<>>
    /\ NoPosition(Val(portfolio), proposals[1].symbol)
    /\ VetoedFor(Val(result)[1], "No position in ")

\* C12: a SELL of a held symbol whose quantity is strictly greater than the held
\* quantity is vetoed with the over-quantity reason (held 5, requested 6); a
\* SELL of exactly the held quantity (held 5, requested 5) is approved when no
\* minimum-hold lock applies.
C12_SellQuantity ==
    [][Iteration /\ proposals[idx].action = SELL
                 /\ ~NoPosition(Val(portfolio), proposals[idx].symbol)
                 /\ ~IsNone(proposals[idx].quantity) =>
         LET d    == proposals[idx]
             held == HeldQuantity(Val(portfolio), d.symbol)
         IN  /\ Val(d.quantity) > held =>
                  decisions'[idx] =
                      [d EXCEPT !.action = HOLD, !.quantity = None,
                                !.risk_notes = <<"VETOED: ", "Sell qty (",
                                                 ToString(Val(d.quantity)),
                                                 ") > position (", ToString(held), ")">>]
             /\ (Val(d.quantity) = held
                   /\ ~(store = "DataStore" /\ RecentBuy(d.symbol))) =>
                  /\ decisions'[idx] = d
                  /\ trades_today' = trades_today + 1]_vars

\* held 5, requested 5, approved
C12_Witness ==
    /\ pc = "returned"
    /\ Len(Val(result)) = 1
    /\ proposals[1].action = SELL
    /\ proposals[1].quantity = Some(5)
    /\ ~NoPosition(Val(portfolio), proposals[1].symbol)
    /\ HeldQuantity(Val(portfolio), proposals[1].symbol) = 5
    /\ Val(result)[1] = proposals[1]
    /\ trades_today = entry.trades_today + 1

\* C13: with a data store attached, a SELL of a held symbol with a quantity that
\* does not exceed the holding is vetoed for the minimum hold period exactly
\* when the most recent executed BUY of the symbol is less than 30 minutes old;
\* at 30 minutes or more, and with no BUY recorded, it is not vetoed by this rule.
C13_MinHold ==
    [][Iteration /\ proposals[idx].action = SELL /\ store = "DataStore"
                 /\ ~NoPosition(Val(portfolio), proposals[idx].symbol)
                 /\ ( \/ IsNone(proposals[idx].quantity)
                      \/ Val(proposals[idx].quantity)
                            <= HeldQuantity(Val(portfolio), proposals[idx].symbol) ) =>
         LET d == proposals[idx]
         IN  IF RecentBuy(d.symbol)
             THEN VetoedFor(decisions'[idx], "Min hold period: bought ")
             ELSE decisions'[idx] = d]_vars

\* the most recent BUY of the symbol is exactly 30 minutes old and the SELL passes
C13_Witness ==
    /\ pc = "returned"
    /\ store = "DataStore"
    /\ Len(Val(result)) = 1
    /\ proposals[1].action = SELL
    /\ BuysOf(proposals[1].symbol) # {}
    /\ \A k \in BuysOf(proposals[1].symbol) :
          now - executions[k].timestamp >= MIN_HOLD_MINUTES
    /\ \E k \in BuysOf(proposals[1].symbol) :
          now - executions[k].timestamp = MIN_HOLD_MINUTES
    /\ Val(result)[1] = proposals[1]

----------------------------------------------------------------------------
(* The counters *)

\* a decision that came back as BUY or SELL
IsTrade(d) == d.action \in {BUY, SELL}

\* number of decisions of the list that came back as BUY or SELL
RECURSIVE TradesIn(_)
TradesIn(list) ==
    IF list = <<>> THEN 0
    ELSE (IF IsTrade(Head(list)) THEN 1 ELSE 0) + TradesIn(Tail(list))

\* sum of quantity * position price over the BUYs of the list for held symbols
RECURSIVE CostOf(_, _)
CostOf(list, pf) ==
    IF list = <<>> THEN 0
    ELSE (IF Head(list).action = BUY /\ ~NoPosition(pf, Head(list).symbol)
          THEN Val(Head(list).quantity) * HeldAt(pf, Head(list).symbol)
          ELSE 0) + CostOf(Tail(list), pf)

\* C14: when evaluate returns without the breaker tripping, trades_today is its
\* value at entry plus the number of BUY and SELL proposals that were not
\* vetoed, and session_spent is its value at entry plus the sum of quantity *
\* position price over the approved BUYs of held symbols, and so it is after
\* every decision of the loop; a HOLD or vetoed proposal, and a call that trips
\* the breaker, change neither counter.
C14_Counters ==
    /\ pc = "returned" =>
          IF TrippedAtEntry
          THEN /\ trades_today = entry.trades_today
               /\ session_spent = entry.session_spent
          ELSE /\ trades_today = entry.trades_today + TradesIn(Val(result))
               /\ session_spent
                     = entry.session_spent + CostOf(Val(result), Val(portfolio))
    /\ pc = "loop" =>
          /\ trades_today = entry.trades_today + TradesIn(Approved)
          /\ session_spent = entry.session_spent + CostOf(Approved, Val(portfolio))

\* an approved SELL and an approved BUY of held symbols in one batch
C14_Witness ==
    /\ pc = "returned"
    /\ Len(Val(result)) = 2
    /\ Val(result)[1].action = SELL
    /\ Val(result)[2].action = BUY
    /\ trades_today = entry.trades_today + 2
    /\ session_spent > entry.session_spent
    /\ session_spent = entry.session_spent
                          + Val(Val(result)[2].quantity)
                               * HeldAt(Val(portfolio), Val(result)[2].symbol)

\* C15: for every proposal (any action; quantity absent, negative, zero or
\* positive) and every snapshot with equity >= 0, under non-negative limits,
\* evaluate raises nothing and its loop ends: the call returns a list and every
\* rejection in it is a vetoed decision.
C15_NeverRaises ==
    /\ pc # "raised"
    /\ pc = "loop" => idx <= Len(decisions) + 1
    /\ pc = "returned" =>
          /\ ~IsNone(result)
          /\ ~TrippedAtEntry =>
                \A k \in DOMAIN proposals :
                    \/ Val(result)[k] = proposals[k]
                    \/ (IsVetoed(Val(result)[k]) /\ Val(result)[k].action = HOLD)

\* a BUY of a priced holding on an account without equity
C15_Witness ==
    /\ pc = "returned"
    /\ Val(portfolio).equity = 0
    /\ Len(Val(result)) = 1
    /\ proposals[1].action = BUY
    /\ ~IsNone(proposals[1].quantity)
    /\ Val(proposals[1].quantity) > 0
    /\ HeldAt(Val(portfolio), proposals[1].symbol) > 0
    /\ VetoedFor(Val(result)[1], "Buying power too low ")

----------------------------------------------------------------------------
(* The trading cycles *)

\* the list evaluate handed back to cycle t, as the objects are now
Returned(t) == [k \in DOMAIN cyc[t].approved |-> cyc[t].decisions[cyc[t].approved[k]]]

\* every cycle that was started has run to its end
AllDone == started >= 1 /\ \A t \in Threads : cyc[t].at \in {"not started", "done"}

RECURSIVE TradesOfCycles(_)
TradesOfCycles(n) ==
    IF n = 0 THEN 0 ELSE TradesIn(Returned(n)) + TradesOfCycles(n - 1)

RECURSIVE CostOfCycles(_)
CostOfCycles(n) ==
    IF n = 0 THEN 0
    ELSE (IF IsNone(cyc[n].portfolio) THEN 0
          ELSE CostOf(Returned(n), Val(cyc[n].portfolio))) + CostOfCycles(n - 1)

\* C16: whatever the interleaving of the evaluate calls of concurrent cycles,
\* the counters end as after one of the serial orders of the calls: no update
\* of trades_today or session_spent is lost, and the BUYs that passed the
\* session-budget check do not together exceed session_budget.
C16_Serialized ==
    AllDone =>
        /\ trades_today = TradesOfCycles(MaxCycles)
        /\ session_spent = CostOfCycles(MaxCycles)
        /\ ~IsNone(config.session_budget) => session_spent <= Val(config.session_budget)

\* C17: at most one cycle of the equity lane is inside run_cycle at any time.
C17_OneCycleAtATime == Cardinality({t \in Threads : Running(t)}) <= 1

\* C18: no order is submitted for a symbol that has an open order at the
\* broker, whatever the interleaving and whatever the outcome of the lookup.
C18_NoOrderWhileOpen ==
    [][orders' # orders =>
          \A k \in DOMAIN orders : orders[k].symbol # orders'[Len(orders')].symbol]_vars

\* C19: execute_decision is entered, and an order is submitted, only for a
\* decision that evaluate returned in the same cycle as the BUY or SELL that
\* was proposed, without a veto, in a cycle whose breaker did not trip and that
\* is not a dry run.
C19_OnlyApprovedReachBroker ==
    /\ [][\A t \in Threads :
            (cyc[t].at = "lookup" /\ cyc'[t] # cyc[t]) =>
                LET c == cyc[t]
                    k == c.approved[c.idx]
                    d == c.decisions[k]
                IN  /\ ~dry_run
                    /\ ~c.tripped
                    /\ c.idx \in DOMAIN c.approved
                    /\ d.action \in {BUY, SELL}
                    /\ ~IsVetoed(d)
                    /\ d = c.proposals[k]]_vars
    /\ [][orders' # orders =>
            \E t \in Threads :
                /\ cyc[t].at = "submit"
                /\ cyc'[t] # cyc[t]
                /\ LET c == cyc[t]
                       k == c.approved[c.idx]
                       d == c.decisions[k]
                   IN  /\ ~dry_run
                       /\ ~c.tripped
                       /\ d.action \in {BUY, SELL}
                       /\ ~IsVetoed(d)
                       /\ d = c.proposals[k]
                       /\ orders' = Append(orders, Order(d.symbol, d.action))]_vars

\* a cycle whose first BUY was executed and whose second BUY was vetoed
C19_Witness ==
    \E t \in Threads :
        /\ cyc[t].at = "done"
        /\ Len(cyc[t].approved) = 2
        /\ cyc[t].decisions[1].action = BUY
        /\ IsVetoed(cyc[t].decisions[2])
        /\ \E k \in DOMAIN orders : orders[k] = Order(cyc[t].decisions[1].symbol, BUY)
        /\ \A k \in DOMAIN orders : orders[k].symbol # cyc[t].decisions[2].symbol

\* the stage of the documented pipeline a call of run_cycle belongs to
StageOf(call) ==
    CASE call = "get_portfolio_snapshot" -> "FETCH_PORTFOLIO"
      [] call = "log_snapshot"           -> "FETCH_PORTFOLIO"
      [] call \in {"get_top_movers", "get_crypto_movers", "get_quotes", "get_bars",
                   "get_news", "get_posts"}
                                         -> "FETCH_MARKET_DATA"
      [] call = "analyze"                -> "OBTAIN_PROPOSALS"
      [] call \in {"evaluate", "_record_holds"} -> "RISK_FILTER"
      [] call = "execute_decision"       -> "EXECUTE"
      [] call \in {"log_decision", "log_execution", "log_loss_sale"} -> "AUDIT"

\* the stages a trace passes through, each maximal run of a stage counted once
RECURSIVE StagesOf(_)
StagesOf(trace) ==
    IF trace = <<>> THEN <<>>
    ELSE LET front == StagesOf(SubSeq(trace, 1, Len(trace) - 1))
             stage == StageOf(trace[Len(trace)])
         IN  IF front # <<>> /\ front[Len(front)] = stage THEN front
             ELSE Append(front, stage)

\* C20: a cycle that runs to completion passes through fetch portfolio, fetch
\* market data, compute indicators, obtain proposals, risk filter, execute,
\* audit and done, in this order and each once; the portfolio snapshot is its
\* first external fetch.
C20_StageOrder ==
    \A t \in Threads :
        (cyc[t].at = "done" /\ cyc[t].watchlist # <<>>) =>
            /\ Append(StagesOf(cyc[t].trace), "DONE")
                  = <<"FETCH_PORTFOLIO", "FETCH_MARKET_DATA", "COMPUTE_INDICATORS",
                      "OBTAIN_PROPOSALS", "RISK_FILTER", "EXECUTE", "AUDIT", "DONE">>
            /\ cyc[t].trace[1] = "get_portfolio_snapshot"

----------------------------------------------------------------------------
(* Failures of the fetches and of the broker in a cycle *)

\* run_cycle of thread t has made this call
HasCalled(t, call) == \E k \in DOMAIN cyc[t].trace : cyc[t].trace[k] = call

\* the number of times run_cycle of thread t has made this call
CallsOf(t, call) == Cardinality({k \in DOMAIN cyc[t].trace : cyc[t].trace[k] = call})

\* the cycle was ended by an exception before analyze was called
EndedBeforeProposals(t) == cyc[t].at = "aborted" /\ ~HasCalled(t, "analyze")

\* C21: a failure while fetching bars, news or Reddit posts leaves that input
\* empty and does not end the cycle, which goes on to analyze and evaluate; a
\* failure while fetching the portfolio snapshot ends the cycle before any
\* proposal is obtained, any risk evaluation happens or any order is submitted.
C21_FetchFailures ==
    \A t \in Threads :
        /\ HasCalled(t, "get_bars") =>
              /\ ~EndedBeforeProposals(t)
              /\ HasCalled(t, "get_news") /\ HasCalled(t, "get_posts")
              /\ cyc[t].bars = (IF "bars" \in outage THEN "empty" ELSE "fetched")
              /\ cyc[t].news = (IF "news" \in outage THEN "empty" ELSE "fetched")
              /\ cyc[t].reddit_posts
                    = (IF "reddit" \in outage THEN "empty" ELSE "fetched")
        /\ (HasCalled(t, "get_portfolio_snapshot") /\ IsNone(cyc[t].portfolio)) =>
              /\ cyc[t].at = "aborted"
              /\ cyc[t].proposals = <<>>
              /\ \A call \in {"get_quotes", "analyze", "evaluate", "execute_decision"} :
                    ~HasCalled(t, call)

\* one cycle ended by the portfolio fetch, and another one that reached the
\* execution loop with a BUY or SELL returned by evaluate although bars, news
\* and posts had all failed
C21_Witness ==
    \E t, u \in Threads :
        /\ HasCalled(t, "get_portfolio_snapshot") /\ IsNone(cyc[t].portfolio)
        /\ cyc[u].bars = "empty" /\ cyc[u].news = "empty"
        /\ cyc[u].reddit_posts = "empty"
        /\ HasCalled(u, "evaluate")
        /\ \E k \in DOMAIN Returned(u) : IsTrade(Returned(u)[k])

\* C22: a failure while fetching quotes leaves the quotes empty and does not
\* end the cycle: analyze and evaluate are still called.
C22_QuotesDegrade ==
    \A t \in Threads : HasCalled(t, "get_quotes") => ~EndedBeforeProposals(t)

\* the decisions evaluate returned to thread t that are trades without a veto
TradesReturned(t) ==
    {k \in DOMAIN Returned(t) : IsTrade(Returned(t)[k]) /\ ~IsVetoed(Returned(t)[k])}

\* C23: in a cycle that is not a dry run, an exception of execute_decision for
\* one decision does not end the cycle: every decision evaluate returned is
\* logged, every returned BUY or SELL without a veto is handed to
\* execute_decision, and the cycle runs to "Cycle Complete".
C23_ExecutionFailureIsLocal ==
    \A t \in Threads :
        /\ HasCalled(t, "execute_decision") => cyc[t].at # "aborted"
        /\ (cyc[t].at = "done" /\ ~dry_run /\ HasCalled(t, "_record_holds")) =>
              /\ CallsOf(t, "log_decision") = Len(Returned(t))
              /\ CallsOf(t, "execute_decision") = Cardinality(TradesReturned(t))

\* a completed cycle with two trades returned: execute_decision raised for the
\* first, the second was submitted and its execution logged
C23_Witness ==
    \E t \in Threads :
        /\ cyc[t].at = "done"
        /\ TradesReturned(t) = {1, 2}
        /\ CallsOf(t, "execute_decision") = 2
        /\ CallsOf(t, "log_execution") = 1
        /\ orders # <<>>
        /\ orders[Len(orders)].symbol = Returned(t)[2].symbol
        /\ \A k \in DOMAIN orders : orders[k].symbol # Returned(t)[1].symbol

----------------------------------------------------------------------------
(* The HOLD cooldown *)

\* the cycles that have returned from evaluate with a decision for the symbol
DecidedOn(symbol) ==
    {u \in Threads : /\ ~IsNone(cyc[u].recorded)
                     /\ \E k \in DOMAIN Returned(u) : Returned(u)[k].symbol = symbol}

\* the most recent decision the risk filter returned for the symbol was a HOLD
\* and is less than 20 minutes old
RecentHold(symbol) ==
    /\ DecidedOn(symbol) # {}
    /\ LET u == CHOOSE v \in DecidedOn(symbol) : \A w \in DecidedOn(symbol) : w <= v
       IN  /\ \E k \in DOMAIN Returned(u) :
                 Returned(u)[k].symbol = symbol /\ Returned(u)[k].action = HOLD
           /\ now - Val(cyc[u].recorded) < 20

\* the elements of a list
Elements(list) == {list[k] : k \in DOMAIN list}

\* C24: the watchlist of an equity cycle holds no symbol whose most recent
\* returned decision was a HOLD less than 20 minutes ago, and holds every
\* configured symbol that has no such HOLD (so a symbol is back once 20 minutes
\* have passed); a crypto cycle keeps every configured symbol; a cycle whose
\* watchlist is empty ends at once, before the portfolio is fetched.
C24_HoldCooldown ==
    [][\A t \in Threads :
          (cyc[t].at = "watchlist" /\ cyc'[t].at # "watchlist") =>
              LET watchlist == Elements(cyc'[t].watchlist)
              IN  /\ IF cyc[t].crypto
                     THEN Elements(ConfigCryptoWatchlist) \subseteq watchlist
                     ELSE /\ \A symbol \in watchlist : ~RecentHold(symbol)
                          /\ \A symbol \in Elements(ConfigWatchlist) :
                                symbol \in watchlist <=> ~RecentHold(symbol)
                  /\ watchlist = {} =>
                        /\ cyc'[t].at = "done"
                        /\ Len(cyc'[t].trace) = 1
                        /\ IsNone(cyc'[t].portfolio)
                        /\ orders' = orders]_vars

\* an equity cycle whose symbols were returned as HOLD, and 19 minutes later
\* an equity cycle that found every symbol on cooldown and ended at once
C24_Witness ==
    \E t, u \in Threads :
        /\ t < u
        /\ ~cyc[t].crypto /\ ~cyc[u].crypto
        /\ ~IsNone(cyc[t].recorded)
        /\ \E k \in DOMAIN Returned(t) : Returned(t)[k].action = HOLD
        /\ now - Val(cyc[t].recorded) = 19
        /\ cyc[u].at = "done" /\ cyc[u].watchlist = <<>>
        /\ Len(cyc[u].trace) = 1

\* the same first cycle, and 20 minutes later an equity cycle that analysed
\* the symbol again
C24_Back ==
    \E t, u \in Threads :
        /\ t < u
        /\ ~cyc[t].crypto /\ ~cyc[u].crypto
        /\ ~IsNone(cyc[t].recorded) /\ ~IsNone(cyc[u].recorded)
        /\ Returned(t) # <<>> /\ Returned(t)[1].action = HOLD
        /\ cyc[u].at = "done" /\ cyc[u].proposals # <<>>
        /\ cyc[u].proposals[1].symbol = Returned(t)[1].symbol
        /\ Val(cyc[u].recorded) - Val(cyc[t].recorded) = 20

\* a crypto cycle that returned a HOLD, and at the same minute a crypto cycle
\* that analysed the symbol again
C24_Crypto ==
    \E t, u \in Threads :
        /\ t < u
        /\ cyc[t].crypto /\ cyc[u].crypto
        /\ ~IsNone(cyc[t].recorded) /\ ~IsNone(cyc[u].recorded)
        /\ Returned(t) # <<>> /\ Returned(t)[1].action = HOLD
        /\ cyc[u].at = "done" /\ cyc[u].proposals # <<>>
        /\ cyc[u].proposals[1].symbol = Returned(t)[1].symbol
        /\ Val(cyc[u].recorded) = Val(cyc[t].recorded)

----------------------------------------------------------------------------
(* The audit log and the counters *)

\* C25: a cycle that reached the risk filter and ran to its end has written
\* exactly one decision record per proposal of the analyst, whatever the
\* outcome (approved, vetoed, breaker tripped, dry run, failed execution).
C25_OneRecordPerProposal ==
    \A t \in Threads :
        (cyc[t].at = "done" /\ HasCalled(t, "evaluate")) =>
            CallsOf(t, "log_decision") = Len(cyc[t].proposals)

\* C26: every BUY or SELL that evaluate returns has a quantity, and the
\* quantity is strictly positive.
C26_PositiveQuantity ==
    pc = "returned" =>
        \A k \in DOMAIN Val(result) :
            IsTrade(Val(result)[k]) =>
                /\ ~IsNone(Val(result)[k].quantity)
                /\ Val(Val(result)[k].quantity) > 0

\* C27: trades_today and session_spent never decrease during evaluate; only
\* the daily reset lowers a counter, and it sets trades_today to 0 and leaves
\* session_spent, the cooldown table and the stored loss-sale and execution
\* rows as they are.
C27_CountersAndReset ==
    [][/\ session_spent' >= session_spent
       /\ (pc # "idle" \/ pc' # "idle") => trades_today' >= trades_today
       /\ trades_today' < trades_today =>
             /\ pc = "idle" /\ pc' = "idle"
             /\ trades_today' = 0
             /\ session_spent' = session_spent
             /\ _hold_cooldowns' = _hold_cooldowns
             /\ loss_sales' = loss_sales
             /\ executions' = executions]_vars

\* after a daily reset that followed an approved BUY: no trade counted, the
\* spending of the session still there
C27_Witness ==
    /\ pc = "idle"
    /\ calls >= 1
    /\ trades_today = 0
    /\ session_spent > 0

\* C28: when no cycle is running, trades_today equals the number of orders
\* the broker has accepted since the last daily reset: a dry run, a failed
\* submission or a decision skipped for an open order counts no trade.
C28_CountsExecutedTrades ==
    (\A t \in Threads : ~Running(t)) => trades_today = Len(executions)

----------------------------------------------------------------------------
(* The indicator engine *)

\* the mapping returned by compute_indicators has this entry for the symbol
HasEntry(symbol, key) ==
    /\ symbol \in DOMAIN Val(indicators).value
    /\ key \in DOMAIN Val(indicators).value[symbol]

\* compute_indicators has returned a mapping
HasReturned == ~IsNone(indicators) /\ ~Val(indicators).raised

\* C29: for a symbol with n bars, the symbol is absent from the output when
\* n < 5; SMA_10 is present iff n >= 10, SMA_20 and the Bollinger entries iff
\* n >= 20, the RSI entries iff n >= 15 and the MACD entries iff n >= 35.
\* (A call that raised has no output, so none of its entries is present.)
C29_HistoryGates ==
    ~IsNone(indicators) =>
        \A symbol \in DOMAIN bars :
            LET n == Len(bars[symbol])
            IN  /\ n < 5 => (HasReturned /\ symbol \notin DOMAIN Val(indicators).value)
                /\ HasEntry(symbol, "SMA_10") <=> n >= 10
                /\ \A key \in {"SMA_20", "BB_upper", "BB_middle", "BB_lower", "BB_signal"} :
                      HasEntry(symbol, key) <=> n >= 20
                /\ \A key \in {"RSI_14", "RSI_signal"} :
                      HasEntry(symbol, key) <=> n >= 15
                /\ \A key \in {"MACD", "MACD_signal", "MACD_histogram", "MACD_trend"} :
                      HasEntry(symbol, key) <=> n >= 35

\* the closes rise from every day to the next
StrictlyIncreasing(symbol_bars) ==
    \A i \in 1..(Len(symbol_bars) - 1) : symbol_bars[i].close < symbol_bars[i + 1].close

\* C30: for a strictly increasing close series of at least 15 values, RSI(14)
\* is exactly 100: compute_indicators returns, the entry RSI_14 reads "100.0"
\* and RSI_signal is OVERBOUGHT.
C30_RisingSeriesRsi ==
    ~IsNone(indicators) =>
        \A symbol \in DOMAIN bars :
            (Len(bars[symbol]) >= 15 /\ StrictlyIncreasing(bars[symbol])) =>
                /\ _rsi([k \in DOMAIN bars[symbol] |-> bars[symbol][k].close], 14)
                      = [num |-> 100, den |-> 1]
                /\ HasReturned
                /\ HasEntry(symbol, "RSI_14")
                /\ Val(indicators).value[symbol]["RSI_14"] = <<100, 0>>
                /\ Val(indicators).value[symbol]["RSI_signal"] = "OVERBOUGHT"

\* twenty closes that rise by changing increments, and their indicators
C30_Witness ==
    /\ HasReturned
    /\ \E symbol \in DOMAIN bars :
          /\ Len(bars[symbol]) = 20
          /\ StrictlyIncreasing(bars[symbol])
          /\ bars[symbol][3].close - bars[symbol][2].close
                # bars[symbol][2].close - bars[symbol][1].close
          /\ Val(indicators).value[symbol]["RSI_14"] = <<100, 0>>

\* the closes of a history
Closes(symbol_bars) == [k \in DOMAIN symbol_bars |-> symbol_bars[k].close]

\* every close of the history is the same price
Flat(symbol_bars) ==
    \A i, j \in DOMAIN symbol_bars : symbol_bars[i].close = symbol_bars[j].close

\* C31: for a constant-price series of at least 35 bars, the indicator set
\* returned for the symbol has a MACD histogram of exactly zero, the MACD line
\* being equal to the signal line.
C31_FlatSeriesHistogram ==
    ~IsNone(indicators) =>
        \A symbol \in DOMAIN bars :
            (Len(bars[symbol]) >= 35 /\ Flat(bars[symbol])) =>
                /\ HasReturned
                /\ HasEntry(symbol, "MACD_histogram")
                /\ Val(indicators).value[symbol]["MACD_histogram"] = 0
                /\ Val(indicators).value[symbol]["MACD"]
                      = Val(indicators).value[symbol]["MACD_signal"]

\* C32: compute_indicators never raises: a zero denominator leaves out the
\* indicator it belongs to and nothing else, so the call returns a mapping
\* and the moving averages, RSI and ATR of the symbol are in it whenever the
\* history is long enough for them.
C32_NeverRaises ==
    ~IsNone(indicators) =>
        /\ HasReturned
        /\ \A symbol \in DOMAIN bars :
              LET n == Len(bars[symbol])
              IN  /\ n >= 10 => HasEntry(symbol, "SMA_10")
                  /\ n >= 15 => HasEntry(symbol, "RSI_14") /\ HasEntry(symbol, "ATR_14")
                  /\ n >= 20 => HasEntry(symbol, "SMA_20")

\* C33: for a series of n >= 35 closes, the MACD line reported is the last
\* value of EMA(12) minus the last value of EMA(26), both being the averages
\* of the most recent close.
C33_MacdPairsSameDay ==
    HasReturned =>
        \A symbol \in DOMAIN bars :
            Len(bars[symbol]) >= 35 =>
                LET values   == [i \in DOMAIN bars[symbol] |-> SRat(bars[symbol][i].close, 1)]
                    ema_fast == _ema(values, 12)
                    ema_slow == _ema(values, 26)
                IN  /\ HasEntry(symbol, "MACD")
                    /\ Val(indicators).value[symbol]["MACD"]
                          = Format4(Minus(ema_fast[Len(ema_fast)], ema_slow[Len(ema_slow)]))

\* the closes rose on each of the last k days
RoseFor(closes, k) ==
    /\ k < Len(closes)
    /\ \A j \in 0..(k - 1) : closes[Len(closes) - j] > closes[Len(closes) - j - 1]

\* the closes fell on each of the last k days
FellFor(closes, k) ==
    /\ k < Len(closes)
    /\ \A j \in 0..(k - 1) : closes[Len(closes) - j] < closes[Len(closes) - j - 1]

\* the longest run of rises that ends the history, or minus the longest run of
\* falls
SignedRun(closes) ==
    LET ups   == {k \in 0..Len(closes) : RoseFor(closes, k)}
        downs == {k \in 0..Len(closes) : FellFor(closes, k)}
        up    == CHOOSE k \in ups : \A x \in ups : x <= k
        down  == CHOOSE k \in downs : \A x \in downs : x <= k
    IN  IF up > 0 THEN up ELSE -down

\* C34: for a series of at least 2 closes, the streak is the signed number of
\* consecutive rises (positive) or falls (negative) that end at the most recent
\* bar, a flat day or a change of direction ending the count; the entry
\* "streak" reports it, and "REVERSAL LIKELY" is flagged exactly when its
\* absolute value is at least 5.
C34_Streak ==
    ~IsNone(indicators) =>
        \A symbol \in DOMAIN bars :
            Len(bars[symbol]) >= 2 =>
                LET signed == SignedRun(Closes(bars[symbol]))
                IN  /\ _streak(Closes(bars[symbol])) = signed
                    /\ HasEntry(symbol, "streak") =>
                          Val(indicators).value[symbol]["streak"]
                            = <<Abs(signed), IF signed > 0 THEN "UP" ELSE "DOWN">>
                    /\ HasEntry(symbol, "streak_signal") <=> Abs(signed) >= 5
                    /\ HasEntry(symbol, "streak_signal") =>
                          Val(indicators).value[symbol]["streak_signal"] = "REVERSAL LIKELY"

\* a fall, then five rises: the count stops at the change of direction and
\* the reversal is flagged
C34_Witness ==
    /\ HasReturned
    /\ \E symbol \in DOMAIN bars :
          /\ Len(bars[symbol]) = 7
          /\ bars[symbol][2].close < bars[symbol][1].close
          /\ HasEntry(symbol, "streak")
          /\ Val(indicators).value[symbol]["streak"] = <<5, "UP">>
          /\ HasEntry(symbol, "streak_signal")

\* a rise, a flat day, then two falls: the count stops at the flat day
C34_FlatDay ==
    /\ HasReturned
    /\ \E symbol \in DOMAIN bars :
          /\ Len(bars[symbol]) = 5
          /\ bars[symbol][3].close = bars[symbol][2].close
          /\ HasEntry(symbol, "streak")
          /\ Val(indicators).value[symbol]["streak"] = <<2, "DOWN">>
          /\ ~HasEntry(symbol, "streak_signal")

\* C35: after any sequence of evaluate calls made one at a time, with no
\* reset_daily since, trades_today is at most max_trades_per_day, whatever
\* the size of the batches.
C35_DailyCap == trades_today <= config.max_trades_per_day

\* C36: with a session budget configured and session_spent 0 at the start,
\* session_spent <= session_budget in every state reached by evaluate calls
\* made one at a time.
C36_BudgetNeverExceeded ==
    ~IsNone(config.session_budget) => session_spent <= Val(config.session_budget)

\* the second call finds the budget spent to the last dollar by the first and
\* refuses its BUY
C36_Witness ==
    /\ pc = "returned"
    /\ calls = 2
    /\ ~IsNone(config.session_budget)
    /\ entry.session_spent = Val(config.session_budget)
    /\ session_spent = Val(config.session_budget)
    /\ \E i \in DOMAIN Val(result) :
          /\ proposals[i].action = BUY
          /\ VetoedFor(Val(result)[i], "Exceeds session budget ")

\* C38: in a cycle run with dry_run true, execute_decision is never called and
\* no execution record or loss-sale record is written, while every decision
\* returned by the risk filter is written to the decision log.
C38_DryRun ==
    dry_run =>
        /\ executions = NoTables.executions
        /\ loss_sales = NoTables.loss_sales
        /\ \A t \in Threads :
              /\ ~HasCalled(t, "execute_decision")
              /\ ~HasCalled(t, "log_execution")
              /\ ~HasCalled(t, "log_loss_sale")
              /\ cyc[t].at \notin {"log", "lookup", "submit", "logexec"}
              /\ (cyc[t].at = "done" /\ HasCalled(t, "_record_holds")) =>
                    CallsOf(t, "log_decision") = Len(Returned(t))

\* a dry run whose risk filter returned an approved SELL at a loss and an
\* approved BUY: both are logged, neither is executed
C38_Witness ==
    /\ dry_run
    /\ \E t \in Threads :
          /\ cyc[t].at = "done"
          /\ Len(Returned(t)) = 2
          /\ Returned(t)[1].action = SELL
          /\ Returned(t)[2].action = BUY
          /\ CallsOf(t, "log_decision") = 2

\* the calendar day of a clock reading
Day(timestamp) == timestamp \div MinutesPerDay

\* the cycle of thread t was the first to evaluate on its day
FirstOfItsDay(t) ==
    /\ ~IsNone(cyc[t].recorded)
    /\ \A u \in Threads :
          (u < t /\ ~IsNone(cyc[u].recorded)) =>
              Day(Val(cyc[u].recorded)) < Day(Val(cyc[t].recorded))

\* C37: a circuit breaker tripped by the trade count does not persist into the
\* next trading day: trades_today is reset at the start of each trading day, so
\* the first cycle to evaluate on a day is halted only by the daily loss limit.
C37_BreakerClearsOvernight ==
    \A t \in Threads :
        (FirstOfItsDay(t) /\ cyc[t].tripped) =>
            Val(cyc[t].portfolio).daily_pl_pct < -config.daily_loss_limit_pct

\* the rows of a table
Rows(table) == {table[k] : k \in DOMAIN table}

\* the position of the symbol in the account of thread t is down
DownFor(t, symbol) ==
    \E k \in DOMAIN Val(cyc[t].portfolio).positions :
        /\ Val(cyc[t].portfolio).positions[k].symbol = symbol
        /\ Val(cyc[t].portfolio).positions[k].unrealized_pl < 0

\* a loss sale is recorded with the execution of a SELL of a stock whose
\* position was down, and with nothing else
LockWithLossSale ==
    \A t \in Threads :
        (cyc[t].at = "logexec" /\ cyc'[t] # cyc[t]) =>
            LET d == Current(t)
            IN  IF d.action = SELL /\ ~IsCrypto(d.symbol) /\ DownFor(t, d.symbol)
                THEN loss_sales' = Append(loss_sales,
                                          LossRow(now, d.symbol,
                                                  Val(FindPosition(Val(cyc[t].portfolio),
                                                                   d.symbol)).unrealized_pl))
                ELSE loss_sales' = loss_sales

\* thread t is about to check a BUY in evaluate
ChecksBuy(t) ==
    /\ cyc[t].at = "check"
    /\ cyc[t].idx <= Len(cyc[t].decisions)
    /\ cyc[t].decisions[cyc[t].idx].action = BUY
    /\ cyc'[t] # cyc[t]

\* C39 as stated: after a cycle that is not a dry run submits a SELL of a stock
\* whose position was down, every BUY of that symbol evaluated within the
\* following 30 days is vetoed for the wash sale; a SELL of a position that is
\* not down, a SELL whose submission failed and a SELL of a crypto symbol
\* create no lock.
C39_Original ==
    /\ [][LockWithLossSale]_vars
    /\ [][loss_sales' # loss_sales =>
            \E t \in Threads : cyc[t].at = "logexec" /\ cyc'[t] # cyc[t] /\ ~dry_run]_vars
    /\ [][\A t \in Threads :
            ChecksBuy(t) =>
                LET k == cyc[t].idx
                    d == cyc[t].decisions[k]
                IN  IF ~IsCrypto(d.symbol) /\ RecentLoss(d.symbol)
                    THEN VetoedFor(cyc'[t].decisions[k], "Wash sale: ")
                    ELSE ~VetoedFor(cyc'[t].decisions[k], "Wash sale: ")]_vars

\* C39: the same, for the BUYs that come with a positive quantity; a BUY
\* without one is vetoed for its quantity before the loss sales are looked up.
C39_WashSaleLock ==
    /\ [][LockWithLossSale]_vars
    /\ [][loss_sales' # loss_sales =>
            \E t \in Threads : cyc[t].at = "logexec" /\ cyc'[t] # cyc[t] /\ ~dry_run]_vars
    /\ [][\A t \in Threads :
            ChecksBuy(t) =>
                LET k == cyc[t].idx
                    d == cyc[t].decisions[k]
                IN  IF RuleQuantity(d)
                    THEN VetoedFor(cyc'[t].decisions[k], "Invalid quantity")
                    ELSE IF ~IsCrypto(d.symbol) /\ RecentLoss(d.symbol)
                    THEN VetoedFor(cyc'[t].decisions[k], "Wash sale: ")
                    ELSE ~VetoedFor(cyc'[t].decisions[k], "Wash sale: ")]_vars

\* 29 days after the SELL of AAPL at a loss, a BUY of AAPL is vetoed for the
\* wash sale
C39_Witness ==
    \E t \in Threads :
        /\ cyc[t].at = "done"
        /\ \E k \in DOMAIN cyc[t].decisions :
              /\ cyc[t].proposals[k] = Decision(AAPL, BUY, Some(95), <<>>)
              /\ VetoedFor(cyc[t].decisions[k], "Wash sale: ")
        /\ \E row \in Rows(loss_sales) :
              /\ row.symbol = AAPL
              /\ now - row.timestamp = (WASH_SALE_DAYS - 1) * MinutesPerDay

\* 30 days after the SELL of AAPL at a loss, a BUY of AAPL is approved
C39_Expired ==
    \E t \in Threads :
        /\ cyc[t].at = "done"
        /\ \E k \in DOMAIN cyc[t].decisions :
              /\ cyc[t].proposals[k] = Decision(AAPL, BUY, Some(95), <<>>)
              /\ cyc[t].decisions[k] = cyc[t].proposals[k]
        /\ \E row \in Rows(loss_sales) :
              /\ row.symbol = AAPL
              /\ now - row.timestamp = WASH_SALE_DAYS * MinutesPerDay

\* a crypto position that was down has been sold and a later cycle buys the
\* symbol back
C39_Crypto ==
    /\ \E row \in Rows(executions) : row.symbol = UNIUSD /\ row.side = SELL
    /\ \E t \in Threads :
          /\ cyc[t].at = "done"
          /\ \E k \in DOMAIN cyc[t].decisions :
                /\ cyc[t].decisions[k] = Decision(UNIUSD, BUY, Some(10), <<>>)
                /\ \E order \in Rows(orders) : order = Order(UNIUSD, BUY)

\* C40: a cycle triggered while HOLD ALL is on, in --schedule or in --dashboard
\* mode, obtains no proposals, runs no risk evaluation and submits no order.
\* The switch is only flipped between cycles, so it is on during a cycle exactly
\* when it was on at the trigger.
C40_HoldAllStopsCycle ==
    \A t \in Threads :
        (_hold_all /\ Running(t))
            => /\ ~HasCalled(t, "analyze")
               /\ ~HasCalled(t, "evaluate")
               /\ ~HasCalled(t, "execute_decision")

====
